---------------------------- MODULE Spec2Model ----------------------------
(***************************************************************************)
(* Model of the Reddit keyword monitor in src/app.py (RedditTelegramBot):  *)
(* the group registry, the per-group dedup sets, the two producers (the    *)
(* live comment stream and the periodic sweep), the notification queue and *)
(* its dispatcher, and the configuration handlers that mutate the registry.*)
(*                                                                         *)
(* Scheduling.  Everything runs on one asyncio event loop (start_bot,      *)
(* app.py 2543-2595), so a task is pre-empted only where it awaits         *)
(* something that really suspends: a network call or asyncio.sleep.  One   *)
(* action of this model is one such run-to-suspension segment.             *)
(* `async with self.notification_lock` is not such a point: the lock is    *)
(* only ever held over blocks without an await (393-395, 403-407, 417-418),*)
(* so it is free whenever a task gets to run, and asyncio.Lock.acquire     *)
(* returns without suspending when the lock is free.                       *)
(***************************************************************************)
EXTENDS Integers, Sequences, FiniteSets, TLC

VARIABLES
    groups,                 \* self.groups: group id -> group info
    group_entries,          \* the entry array of the dict self.groups (insertion order, Hole = deleted entry)
    processed_items,        \* self.processed_items: group id -> set of item ids
    pending_notifications,  \* self.pending_notifications: the queue of (group_id, message)
    dispatcher,             \* notification_processor: its position and the envelope it holds
    sweep,                  \* monitoring_loop / monitor_reddit: its position and locals
    sender,                 \* the external chat senders: how each destination answers
    pending_op,             \* the pending_* dicts and menu_state: user id -> operation
    enq_log,                \* history: every envelope appended to the queue, in order
    sent_log,               \* history: every envelope sent successfully, in order
    attempts,               \* history: send attempts of the envelope at the head / in flight
    insert_order,           \* history: per group, the ids of its dedup set in insertion order
    evictions,              \* history: every trim or removal that took ids out of a dedup set
    last_cmd,               \* history: the latest configuration update, if it ran an add or remove loop: its input and the group before it
    cmds,                   \* history: number of configuration updates handled so far
    phrase_call,            \* one call of the phrase matchers: its arguments and what each returned
    tasks,                  \* the three long-lived tasks, the content source's client, the stop flags and the event loop
    exported                \* the JSON of the owner's latest /exportdata, and (history) the registry it was made from

vars == <<groups, group_entries, processed_items, pending_notifications, dispatcher,
          sweep, sender, pending_op, enq_log, sent_log, attempts, insert_order,
          evictions, last_cmd, cmds, phrase_call, tasks, exported>>

---------------------------------------------------------------------------
(* Bounds of the model *)

\* Envelopes appended to the queue in one run.
MaxEnq == 3
\* Configuration updates (commands, menu callbacks, text inputs) in one run.
MaxCmds == 2
\* Ghost counter of send attempts of one envelope stops counting here.
MaxAttempts == 4

(* Program constants *)

\* self.owner_chat_id, and the one other chat id of the model.
OwnerId == "owner"
OtherId == "g2"
GroupIds == {OwnerId, OtherId}
\* The owner's user in the control chat.
UserIds == {"u1"}

\* A deleted entry of the dict's entry array.
Hole == "hole"

---------------------------------------------------------------------------
(* Texts and the phrase matcher *)

WordChars == {"a", "b", "l", "r", "x", "y", "A", "B", "X", "Y", "_"}

\* str.lower() on the model's alphabet.
Lower(c) ==
    CASE c = "A" -> "a" [] c = "B" -> "b" [] c = "X" -> "x" [] c = "Y" -> "y"
      [] OTHER -> c

LowerText(t) == [k \in 1..Len(t) |-> Lower(t[k])]

\* Whether position k of t holds a word character (\w); off the ends it does not.
WordAt(t, k) == k >= 1 /\ k <= Len(t) /\ t[k] \in WordChars

\* Regex \b in the gap after position k (0..Len(t)): word on exactly one side.
Boundary(t, k) == WordAt(t, k) # WordAt(t, k + 1)

\* re.escape(p) matched literally at position s of t.
OccursAt(t, p, s) ==
    /\ s >= 1
    /\ s + Len(p) - 1 <= Len(t)
    /\ \A j \in 1..Len(p) : t[s + j - 1] = p[j]

\* re.search(r'\b' + re.escape(p) + r'\b', t)
BoundedSearch(t, p) ==
    \E s \in 1..Len(t) :
        /\ OccursAt(t, p, s)
        /\ Boundary(t, s - 1)
        /\ Boundary(t, s + Len(p) - 1)

contains_phrase(text, phrase) ==
    IF Len(text) = 0 \/ Len(phrase) = 0 THEN FALSE
    ELSE BoundedSearch(LowerText(text), LowerText(phrase))

contains_phrase_case_sensitive(text, phrase) ==
    IF Len(text) = 0 \/ Len(phrase) = 0 THEN FALSE
    ELSE BoundedSearch(text, phrase)

\* A call of the two matchers on one text and one phrase; ran holds the
\* matchers that have returned.
PhraseCall(text, phrase) ==
    [text |-> text, phrase |-> phrase, ran |-> {}, ci |-> FALSE, cs |-> FALSE]

NoCall == PhraseCall(<<>>, <<>>)

CallContainsPhrase ==
    /\ "ci" \notin phrase_call.ran
    /\ phrase_call' = [phrase_call EXCEPT
            !.ran = @ \cup {"ci"},
            !.ci = contains_phrase(phrase_call.text, phrase_call.phrase)]
    /\ UNCHANGED <<groups, group_entries, processed_items, pending_notifications,
                   dispatcher, sweep, sender, pending_op, enq_log, sent_log,
                   attempts, insert_order, evictions, last_cmd, cmds, tasks, exported>>

CallContainsPhraseCaseSensitive ==
    /\ "cs" \notin phrase_call.ran
    /\ phrase_call' = [phrase_call EXCEPT
            !.ran = @ \cup {"cs"},
            !.cs = contains_phrase_case_sensitive(phrase_call.text, phrase_call.phrase)]
    /\ UNCHANGED <<groups, group_entries, processed_items, pending_notifications,
                   dispatcher, sweep, sender, pending_op, enq_log, sent_log,
                   attempts, insert_order, evictions, last_cmd, cmds, tasks, exported>>

---------------------------------------------------------------------------
(* The content source: the items Reddit can deliver *)

KwA == <<"a">>
KwAB == <<"a", " ", "b">>
CkB == <<"B">>
CkA == <<"A">>
\* Regular keywords are stored lowercased (1712, 2108); case-sensitive ones as typed (1906).
Keywords == {KwA, KwAB}
CaseKeywords == {CkA, CkB}

\* Subreddit names as the filters store them (lowercased on input, 1802, 1991).
SubX == <<"x">>
SubY == <<"y">>
Subreddits == {SubX, SubY}
\* The search target that stands for every subreddit (533).
AllTarget == <<"a", "l", "l">>

Comments ==
    { [id |-> "t1", kind |-> "comment", subreddit |-> <<"X">>, title |-> <<>>,
       body |-> <<"A", " ", "b">>],
      [id |-> "t2", kind |-> "comment", subreddit |-> <<"y">>, title |-> <<>>,
       body |-> <<"a", "b", " ", "B">>] }

Posts ==
    { [id |-> "t3", kind |-> "post", subreddit |-> <<"x">>, title |-> <<"a">>,
       body |-> <<>>] }

Items == Comments \cup Posts
ItemIds == {i.id : i \in Items}

---------------------------------------------------------------------------
(* The group registry *)

\* The group info dict that load_data (167-176, 182-192) and addgroup (1082-1091) create.
NewGroup ==
    [keywords |-> {}, case_sensitive_keywords |-> {}, subreddits |-> {},
     subreddit_blacklist |-> {}, enabled |-> TRUE, platform |-> "telegram"]

\* The keys of a dict in iteration order: the live entries of its entry array.
RECURSIVE LiveKeys(_)
LiveKeys(entries) ==
    IF entries = <<>> THEN <<>>
    ELSE IF Head(entries) = Hole THEN LiveKeys(Tail(entries))
    ELSE <<Head(entries)>> \o LiveKeys(Tail(entries))

\* dict.__setitem__ of a new key appends an entry; del leaves a hole.
EntriesAdd(entries, g) == Append(entries, g)
EntriesDel(entries, g) == [k \in 1..Len(entries) |-> IF entries[k] = g THEN Hole ELSE entries[k]]

\* A function with one key added or overwritten, and with one key removed.
DictSet(d, k, v) == [x \in DOMAIN d \cup {k} |-> IF x = k THEN v ELSE d[x]]
DictDel(d, k) == [x \in DOMAIN d \ {k} |-> d[x]]

EmptyDict == [x \in {} |-> {}]

\* `if group_id not in self.processed_items: self.processed_items[group_id] = set()`
EnsureSet(pi, g) == IF g \in DOMAIN pi THEN pi ELSE DictSet(pi, g, {})

---------------------------------------------------------------------------
(* Envelopes *)

NoEnv == <<>>

\* format_notification (344-389): the text names the keyword, the item and its
\* subreddit.  seq and via are history: the envelope's position in enq_log and
\* the producer that made it.
format_notification(item, keyword, item_type, n, via) ==
    [keyword |-> keyword, type |-> item_type, id |-> item.id,
     subreddit |-> item.subreddit, seq |-> n, via |-> via]

\* A faulty enqueue: the envelope is put in front of the queue.
PushFront(q, group_id, message) == <<<<group_id, message>>>> \o q

\* send_notification_to_group (391-395)
send_notification_to_group(q, group_id, message) == Append(q, <<group_id, message>>)

\* History of insertion order, brought up to date with the dedup sets pi:
\* ids no longer held are dropped, ids newly held are appended.
OrderAfter(io, pi) ==
    [g \in GroupIds |->
        LET held == IF g \in DOMAIN pi THEN pi[g] ELSE {}
            kept == SelectSeq(io[g], LAMBDA i : i \in held)
            old == {kept[k] : k \in 1..Len(kept)}
            new == held \ old
        IN IF new = {} THEN kept ELSE Append(kept, CHOOSE i \in new : TRUE)]

---------------------------------------------------------------------------
(* Producer 1: the live comment stream (stream_comments, 693-772) *)

\* A faulty enabled test: every group passes.
AlwaysEnabled(group_info) == TRUE

\* 711, 814: the test that lets a producer work for a group.
GroupEnabled(group_info) == group_info.enabled

\* 722-731: the subreddit filter of the stream.
StreamAccepts(group_info, c_sr) ==
    /\ ~(group_info.subreddits # {} /\ c_sr \notin group_info.subreddits)
    /\ ~(group_info.subreddit_blacklist # {} /\ c_sr \in group_info.subreddit_blacklist)

\* A faulty dedup test: a comment reported to any group counts as seen.
SeenByAnyGroup(pi, g, c) == \E h \in DOMAIN pi : c.id \in pi[h]

\* A faulty keyword test: the case-sensitive keywords are tried first.
CaseFirstMatch(group_info, c) ==
    LET hits == {k \in group_info.keywords : contains_phrase(c.body, k)}
        case_hits == {k \in group_info.case_sensitive_keywords :
                        contains_phrase_case_sensitive(c.body, k)}
    IN IF case_hits # {} THEN case_hits ELSE hits

\* 733-750: the keywords the stream can report for comment c.  The loops run over
\* list(set), whose order is arbitrary, and stop at the first hit; case-sensitive
\* keywords are tried only when no regular keyword hit.
StreamMatch(group_info, c) ==
    LET hits == {k \in group_info.keywords : contains_phrase(c.body, k)}
        case_hits == {k \in group_info.case_sensitive_keywords :
                        contains_phrase_case_sensitive(c.body, k)}
    IN IF hits # {} THEN hits ELSE case_hits

\* 718: the stream's dedup test.
StreamSeen(pi, g, c) == c.id \in pi[g]

\* A faulty producer: the enqueue returns and the mark is left for later.
MarkLater(pi, g, id) == pi

\* 757, 595, 677: the producer adds the item's id to the group's dedup set,
\* right after its enqueue returned.  The enqueue awaits only the notification
\* lock (393), which no task holds across a suspension (393-395, 403-407,
\* 417-418 contain no await), so the acquisition does not suspend and the test
\* of 721 / 553 / 660, the enqueue and this insertion run without another task
\* in between.
MarkSeen(pi, g, id) == DictSet(pi, g, pi[g] \cup {id})

\* 710-757 for one comment: the loop over self.groups.items(), as the set of its
\* possible results: the dedup sets, the queue, and (history) the envelopes in
\* the order they were made.
RECURSIVE StreamFanOut(_, _, _, _, _, _)
StreamFanOut(order, regs, c, pi, q, log) ==
    IF order = <<>> THEN {[pi |-> pi, q |-> q, log |-> log]}
    ELSE
        LET g == Head(order)
            info == regs[g]
            rest == Tail(order)
            pi1 == EnsureSet(pi, g)
        IN IF ~GroupEnabled(info) THEN StreamFanOut(rest, regs, c, pi, q, log)
           ELSE IF StreamSeen(pi1, g, c) THEN StreamFanOut(rest, regs, c, pi1, q, log)
           ELSE IF ~StreamAccepts(info, LowerText(c.subreddit))
                THEN StreamFanOut(rest, regs, c, pi1, q, log)
           ELSE IF StreamMatch(info, c) = {} THEN StreamFanOut(rest, regs, c, pi1, q, log)
           ELSE UNION {
                  LET msg == format_notification(c, k, "comment",
                                                 Len(enq_log) + Len(log) + 1, "stream")
                  IN StreamFanOut(rest, regs, c,
                                  MarkSeen(pi1, g, c.id),
                                  send_notification_to_group(q, g, msg),
                                  Append(log, <<g, msg>>))
                  : k \in StreamMatch(info, c) }

\* 703-757: the stream evaluates comment c against every group.
StreamEvaluates(c) ==
    /\ \E r \in StreamFanOut(LiveKeys(group_entries), groups, c, processed_items,
                              pending_notifications, <<>>) :
          /\ Len(enq_log) + Len(r.log) <= MaxEnq
          /\ processed_items' = r.pi
          /\ pending_notifications' = r.q
          /\ enq_log' = enq_log \o r.log
          /\ insert_order' = OrderAfter(insert_order, r.pi)
    /\ UNCHANGED <<groups, group_entries, dispatcher, sweep, sender, pending_op,
                   sent_log, attempts, evictions, last_cmd, cmds, phrase_call, tasks, exported>>

\* One comment arrives on the stream and is evaluated against every group.
StreamComment(c) == c \in Comments /\ StreamEvaluates(c)

---------------------------------------------------------------------------
(* The dispatcher (notification_processor, 397-428) *)

\* History: one more send attempt of envelope number n.
CountAttempt(att, n) ==
    [att EXCEPT ![n] = IF @ < MaxAttempts THEN @ + 1 ELSE @]

\* 89: seconds between notifications.
notification_delay == 3

\* 448: the retry-after assumed when the 429 answer names none.
DefaultRetryAfter == 60

\* What the dispatcher's task did since its last request to a platform: the
\* sleeps it made and the re-queue, in order (history).
Slept(secs) == [act |-> "sleep", secs |-> secs]
Requeued == [act |-> "requeue", secs |-> 0]

\* The dispatcher between envelopes.  env is the loop's locals group_id and
\* message; did and signal are history: signal is the retry-after of the last
\* request's answer when that was a throttling signal, 0 otherwise.
DispatcherIdle == [pc |-> "idle", env |-> NoEnv, did |-> <<>>, signal |-> 0]

\* How the platform answers a request to group g that is the k-th request for
\* its envelope: a throttled destination answers an envelope's first request
\* with a throttling signal and the later ones with success, a choked one
\* answers every request with a throttling signal.
AnswersAt(g, k) ==
    CASE sender[g] = "ok" -> {"ok"}
      [] sender[g] = "fail" -> {"error"}
      [] sender[g] = "flaky" -> {"ok", "error"}
      [] sender[g] = "throttled" -> IF k <= 1 THEN {"throttle"} ELSE {"ok"}
      [] sender[g] = "choked" -> {"throttle"}

\* The answers to the request in flight for envelope number n.
Answers(g, n) == AnswersAt(g, attempts[n])

\* The retry-after durations a throttling signal can carry: one stated in the
\* answer, or none stated (448).
RetryAfters == {5, DefaultRetryAfter}

\* A faulty dispatcher: the send is attempted whether or not the group of the
\* envelope is registered.
PopAndSendAnyway ==
    /\ dispatcher.pc \in {"idle", "pause", "backoff"}
    /\ pending_notifications # <<>>
    /\ LET env == Head(pending_notifications) IN
         /\ pending_notifications' = Tail(pending_notifications)
         /\ dispatcher' = [pc |-> "sending", env |-> env, did |-> <<>>, signal |-> 0]
         /\ attempts' = CountAttempt(attempts, env[2].seq)
    /\ UNCHANGED <<groups, group_entries, processed_items, sweep, sender, pending_op,
                   enq_log, sent_log, insert_order, evictions, last_cmd, cmds, phrase_call, tasks, exported>>

\* 403-411: pop the head, resolve its group and start the send.  A group that is
\* no longer registered makes _send_platform_message return at once (494-496),
\* which the loop takes for a send.  dispatcher.env is the loop's locals
\* group_id and message: they keep the last envelope while the loop sleeps.
DispatchPop ==
    /\ dispatcher.pc \in {"idle", "pause", "backoff"}
    /\ pending_notifications # <<>>
    /\ LET env == Head(pending_notifications) IN
         /\ pending_notifications' = Tail(pending_notifications)
         /\ IF env[1] \in DOMAIN groups
            THEN /\ dispatcher' = [pc |-> "sending", env |-> env, did |-> <<>>,
                                   signal |-> 0]
                 /\ attempts' = CountAttempt(attempts, env[2].seq)
            ELSE /\ dispatcher' = [pc |-> "pause", env |-> env,
                                   did |-> <<Slept(notification_delay)>>, signal |-> 0]
                 /\ attempts' = attempts
    /\ UNCHANGED <<groups, group_entries, processed_items, sweep, sender, pending_op,
                   enq_log, sent_log, insert_order, evictions, last_cmd, cmds, phrase_call, tasks, exported>>

\* A faulty loop: no sleep after a send that returned.
SendOkWithoutPause ==
    /\ dispatcher.pc = "sending"
    /\ "ok" \in Answers(dispatcher.env[1], dispatcher.env[2].seq)
    /\ sent_log' = Append(sent_log, dispatcher.env)
    /\ dispatcher' = [dispatcher EXCEPT !.pc = "pause", !.did = <<>>]
    /\ UNCHANGED <<groups, group_entries, processed_items, pending_notifications, sweep,
                   sender, pending_op, enq_log, attempts, insert_order, evictions,
                   last_cmd, cmds, phrase_call, tasks, exported>>

\* 411-413: the send returned; sleep notification_delay.
DispatchSendOk ==
    /\ dispatcher.pc = "sending"
    /\ "ok" \in Answers(dispatcher.env[1], dispatcher.env[2].seq)
    /\ sent_log' = Append(sent_log, dispatcher.env)
    /\ dispatcher' = [dispatcher EXCEPT !.pc = "pause",
                                        !.did = <<Slept(notification_delay)>>]
    /\ UNCHANGED <<groups, group_entries, processed_items, pending_notifications, sweep,
                   sender, pending_op, enq_log, attempts, insert_order, evictions,
                   last_cmd, cmds, phrase_call, tasks, exported>>

\* A faulty requeue: the failed envelope goes to the tail.
RequeueAtTail(q, env) == Append(q, env)

\* 417-418: where a failed envelope goes back into the queue.
Requeue(q, env) == <<env>> \o q

\* 414-419: the send raised; put the envelope back and sleep 2 * notification_delay.
DispatchSendFail ==
    /\ dispatcher.pc = "sending"
    /\ "error" \in Answers(dispatcher.env[1], dispatcher.env[2].seq)
    /\ pending_notifications' = Requeue(pending_notifications, dispatcher.env)
    /\ dispatcher' = [dispatcher EXCEPT
                        !.pc = "backoff",
                        !.did = <<Requeued, Slept(2 * notification_delay)>>]
    /\ UNCHANGED <<groups, group_entries, processed_items, sweep, sender, pending_op,
                   enq_log, sent_log, attempts, insert_order, evictions, last_cmd, cmds, phrase_call, tasks, exported>>

Dispatcher == DispatchPop \/ DispatchSendOk \/ DispatchSendFail

\* 450: await asyncio.sleep(retry_after)
ThrottleWait(retry_after) == retry_after

\* _send_telegram_message, 445-450: the answer is 429; read its retry-after and
\* sleep that long inside the send.
TelegramThrottled ==
    /\ dispatcher.pc = "sending"
    /\ groups[dispatcher.env[1]].platform = "telegram"
    /\ "throttle" \in Answers(dispatcher.env[1], dispatcher.env[2].seq)
    /\ \E retry_after \in RetryAfters :
          dispatcher' = [dispatcher EXCEPT
                           !.pc = "retry_wait",
                           !.signal = retry_after,
                           !.did = <<Slept(ThrottleWait(retry_after))>>]
    /\ UNCHANGED <<groups, group_entries, processed_items, pending_notifications, sweep,
                   sender, pending_op, enq_log, sent_log, attempts, insert_order,
                   evictions, last_cmd, cmds, phrase_call, tasks, exported>>

\* _send_telegram_message, 451-455: the second request, made once.  With 200
\* the send returns as in 411-413; with anything else it raises and the loop
\* re-queues the envelope as in 414-419.
TelegramRetry ==
    /\ dispatcher.pc = "retry_wait"
    /\ attempts' = CountAttempt(attempts, dispatcher.env[2].seq)
    /\ \E answer \in AnswersAt(dispatcher.env[1], attempts[dispatcher.env[2].seq] + 1) :
          IF answer = "ok"
          THEN /\ sent_log' = Append(sent_log, dispatcher.env)
               /\ pending_notifications' = pending_notifications
               /\ dispatcher' = [dispatcher EXCEPT
                                   !.pc = "pause", !.signal = 0,
                                   !.did = <<Slept(notification_delay)>>]
          ELSE /\ sent_log' = sent_log
               /\ pending_notifications' = Requeue(pending_notifications, dispatcher.env)
               /\ dispatcher' = [dispatcher EXCEPT
                                   !.pc = "backoff", !.signal = 0,
                                   !.did = <<Requeued, Slept(2 * notification_delay)>>]
    /\ UNCHANGED <<groups, group_entries, processed_items, sweep, sender, pending_op,
                   enq_log, insert_order, evictions, last_cmd, cmds, phrase_call, tasks, exported>>

\* _send_slack_message (465-490) has no branch for a throttling signal:
\* chat_postMessage raises SlackApiError, which the loop handles as any failed
\* send (414-419).
SlackThrottled ==
    /\ dispatcher.pc = "sending"
    /\ groups[dispatcher.env[1]].platform = "slack"
    /\ "throttle" \in Answers(dispatcher.env[1], dispatcher.env[2].seq)
    /\ pending_notifications' = Requeue(pending_notifications, dispatcher.env)
    /\ \E retry_after \in RetryAfters :
          dispatcher' = [dispatcher EXCEPT
                           !.pc = "backoff",
                           !.signal = retry_after,
                           !.did = <<Requeued, Slept(2 * notification_delay)>>]
    /\ UNCHANGED <<groups, group_entries, processed_items, sweep, sender, pending_op,
                   enq_log, sent_log, attempts, insert_order, evictions, last_cmd, cmds, phrase_call, tasks, exported>>

\* The dispatcher with destinations that throttle.
ThrottledDispatcher == Dispatcher \/ TelegramThrottled \/ TelegramRetry \/ SlackThrottled

---------------------------------------------------------------------------
(* Trimming the dedup sets (trim_processed_items_in_memory 319-324, save_data 266-269) *)

\* The thresholds 15000 / 7500 (322, 324) and 10000 / 5000 (268, 269), scaled
\* down in the same order: SaveLow < TrimLow < SaveHigh < TrimHigh.
TrimHigh == 4
TrimLow == 2
SaveHigh == 3
SaveLow == 1

\* Every id a dedup set can hold: the items' ids and two ids loaded from disk.
StoredIds == {"o1", "o2"}
AllIds == ItemIds \cup StoredIds

\* set(list(s)[-low:]): the last `low` elements in the iteration order of a set
\* of strings, which is the order of their (per-process randomised) hashes: any
\* `low` of them.
SliceOfSet(s, low) == {t \in SUBSET s : Cardinality(t) = low}

\* The dedup sets after a trim with thresholds high / low: the possible results.
TrimSets(pi, high, low) ==
    IF \A g \in DOMAIN pi : Cardinality(pi[g]) <= high THEN {pi}
    ELSE {f \in [DOMAIN pi -> SUBSET AllIds] :
            \A g \in DOMAIN pi :
                IF Cardinality(pi[g]) > high THEN f[g] \in SliceOfSet(pi[g], low)
                ELSE f[g] = pi[g]}

trim_processed_items_in_memory(pi) == TrimSets(pi, TrimHigh, TrimLow)

\* save_data (263-317) as far as it changes memory: its trim.
save_data(pi) == TrimSets(pi, SaveHigh, SaveLow)

\* History: what a trim from pi to pi2 did, per trimmed group: the ids held
\* before in insertion order, the ids held after, and the size trimmed to.
TrimRecords(io, pi, pi2, low) ==
    {[group |-> g, before |-> io[g], after |-> pi2[g], low |-> low] :
        g \in {h \in DOMAIN pi : pi2[h] # pi[h]}}

\* History: the dedup sets that were deleted on the way from pi to pi2.
RemovalRecords(io, pi, pi2) ==
    {[group |-> g, before |-> io[g], after |-> {}, low |-> 0] :
        g \in {h \in DOMAIN pi \ DOMAIN pi2 : pi[h] # {}}}

\* The history variables after a handler took the dedup sets from pi0 to pi and
\* its save_data took them on to pi2.
SaveHistory(pi0, pi, pi2) ==
    /\ insert_order' = OrderAfter(OrderAfter(insert_order, pi), pi2)
    /\ evictions' = evictions
                      \cup RemovalRecords(insert_order, pi0, pi)
                      \cup TrimRecords(OrderAfter(insert_order, pi), pi, pi2, SaveLow)

---------------------------------------------------------------------------
(* Producer 2: the sweep (monitoring_loop 2526-2541, monitor_reddit 798-850) *)

\* Between cycles.  outcome and failed are history: how the last cycle ended
\* and whether one of its searches raised.
SweepIdle ==
    [pc |-> "sleep", outcome |-> "none", failed |-> FALSE,
     pos |-> 0, used |-> 0, left |-> 0, gid |-> OwnerId, live |-> TRUE,
     orphan |-> NewGroup, kws |-> {}, case_sensitive |-> FALSE, kw |-> <<>>,
     subreddits |-> {}, blacklist |-> {}, targets |-> {}, target |-> AllTarget]

\* The group info object the loop variable group_info of monitor_reddit refers
\* to: the registry's, or the one removegroup took out of the registry.
SweepGroupInfo(regs, sw) == IF sw.live THEN regs[sw.gid] ELSE sw.orphan

Min(S) == CHOOSE x \in S : \A y \in S : x <= y

\* 813-834 from the end of one search to the next suspension: the rest of the
\* keyword loops of the current group, then the next steps of the iterator over
\* self.groups.items().  The result is the sweep's next position: at the
\* rate-limit await of the next search ("posts_start"), past the last group
\* ("done"), or in the handler of 843 ("error") when the dict iterator raised
\* RuntimeError because the registry changed under it.
RECURSIVE GroupLoop(_, _, _)
KeywordLoop(regs, entries, sw) ==
    LET info == SweepGroupInfo(regs, sw) IN
    IF sw.kws # {}
    THEN {[sw EXCEPT !.pc = "posts_start", !.kw = k, !.kws = sw.kws \ {k},
                     !.subreddits = {}, !.blacklist = {}, !.targets = {},
                     !.target = AllTarget] : k \in sw.kws}
    ELSE IF ~sw.case_sensitive /\ info.case_sensitive_keywords # {}
    THEN {[sw EXCEPT !.pc = "posts_start", !.case_sensitive = TRUE, !.kw = k,
                     !.kws = info.case_sensitive_keywords \ {k},
                     !.subreddits = {}, !.blacklist = {}, !.targets = {},
                     !.target = AllTarget] :
            k \in info.case_sensitive_keywords}
    ELSE GroupLoop(regs, entries, sw)

GroupLoop(regs, entries, sw) ==
    LET later == {j \in (sw.pos + 1)..Len(entries) : entries[j] # Hole} IN
    IF sw.used # Cardinality(DOMAIN regs)
    THEN {[SweepIdle EXCEPT !.pc = "error", !.failed = sw.failed]}
    ELSE IF later = {} THEN {[SweepIdle EXCEPT !.pc = "done", !.failed = sw.failed]}
    ELSE IF sw.left = 0 THEN {[SweepIdle EXCEPT !.pc = "error", !.failed = sw.failed]}
    ELSE
        LET j == Min(later)
            g == entries[j]
            nxt == [SweepIdle EXCEPT !.pos = j, !.used = sw.used, !.left = sw.left - 1,
                                     !.gid = g, !.failed = sw.failed]
        IN IF ~GroupEnabled(regs[g]) THEN GroupLoop(regs, entries, nxt)
           ELSE KeywordLoop(regs, entries, [nxt EXCEPT !.kws = regs[g].keywords])

\* The sweep moves to position o, reached from dedup sets pi: a new search starts
\* with 524-525, the end of the cycle trims and saves (836-839), the error
\* handler drops the cycle (843-850).
SweepMoveTo(o, pi) ==
    CASE o.pc = "posts_start" ->
           /\ sweep' = o
           /\ processed_items' = EnsureSet(pi, o.gid)
           /\ insert_order' = OrderAfter(insert_order, pi)
           /\ evictions' = evictions
      [] o.pc = "done" ->
           /\ sweep' = [SweepIdle EXCEPT !.outcome = "completed", !.failed = o.failed]
           /\ \E pi1 \in trim_processed_items_in_memory(pi) :
                \E pi2 \in save_data(pi1) :
                   /\ processed_items' = pi2
                   /\ insert_order' = OrderAfter(OrderAfter(insert_order, pi), pi2)
                   /\ evictions' =
                        evictions
                        \cup TrimRecords(OrderAfter(insert_order, pi), pi, pi1, TrimLow)
                        \cup TrimRecords(OrderAfter(OrderAfter(insert_order, pi), pi1),
                                         pi1, pi2, SaveLow)
      [] OTHER ->
           /\ sweep' = [SweepIdle EXCEPT !.outcome = "aborted", !.failed = o.failed]
           /\ processed_items' = pi
           /\ insert_order' = OrderAfter(insert_order, pi)
           /\ evictions' = evictions

\* 804-809: the keywords of the enabled groups, regular and case-sensitive.
TotalKeywords(regs) ==
    UNION {IF regs[g].enabled
           THEN {<<g, k>> : k \in regs[g].keywords \cup regs[g].case_sensitive_keywords}
           ELSE {} : g \in DOMAIN regs}

\* monitor_reddit starts a cycle (798-820) and runs to its first suspension.
SweepStart ==
    /\ sweep.pc = "sleep"
    /\ TotalKeywords(groups) # {}
    /\ \E o \in GroupLoop(groups, group_entries,
                           [SweepIdle EXCEPT !.used = Cardinality(DOMAIN groups),
                                             !.left = Cardinality(DOMAIN groups)]) :
          SweepMoveTo(o, processed_items)
    /\ UNCHANGED <<groups, group_entries, pending_notifications, dispatcher, sender,
                   pending_op, enq_log, sent_log, attempts, last_cmd, cmds, phrase_call, tasks, exported>>

\* 530-533, 618-621: the filters a search works with, copied from the registry
\* when the search starts; a group that is no longer registered has none.
SearchFilters(regs, g) ==
    IF g \in DOMAIN regs
    THEN [subreddits |-> regs[g].subreddits, blacklist |-> regs[g].subreddit_blacklist]
    ELSE [subreddits |-> {}, blacklist |-> {}]

\* 533, 540-543: the targets still to search; blacklisted targets are skipped.
OpenTargets(targets, blacklist) == targets \ blacklist

\* What the content source returns for a target: items of that subreddit, or of
\* any subreddit for r/all.
SearchResults(universe, target) ==
    {i \in universe : target = AllTarget \/ LowerText(i.subreddit) = target}

\* A faulty dedup test: nothing counts as seen.
NeverSeen(pi, g, item) == FALSE

\* 553, 661: the sweep's dedup test.
SweepSeen(pi, g, item) == item.id \in pi[g]

\* A faulty subreddit filter: the blacklist is not consulted.
AcceptsWithoutBlacklist(subreddits, blacklist, sr) ==
    ~(subreddits # {} /\ sr \notin subreddits)

\* 566-588, 670-674: the subreddit filter of the sweep.
SweepAccepts(subreddits, blacklist, sr) ==
    /\ ~(subreddits # {} /\ sr \notin subreddits)
    /\ ~(blacklist # {} /\ sr \in blacklist)

\* A faulty phrase test: the case-sensitive flag is not consulted.
MatchAnyCase(item, keyword, case_sensitive) ==
    contains_phrase(item.title, keyword) \/ contains_phrase(item.body, keyword)

\* 538, 557-562, 626, 663: the phrase test of the sweep.
SweepMatch(item, keyword, case_sensitive) ==
    IF case_sensitive
    THEN contains_phrase_case_sensitive(item.title, keyword)
         \/ contains_phrase_case_sensitive(item.body, keyword)
    ELSE contains_phrase(item.title, keyword) \/ contains_phrase(item.body, keyword)

\* 552-601, 659-682: one search result is processed.  A dedup set that
\* removegroup deleted meanwhile makes the test raise KeyError, which the
\* handlers of 599 and 680 log.
SweepItem(item, item_type) ==
    /\ sweep.gid \in DOMAIN processed_items
    /\ ~SweepSeen(processed_items, sweep.gid, item)
    /\ SweepMatch(item, sweep.kw, sweep.case_sensitive)
    /\ SweepAccepts(sweep.subreddits, sweep.blacklist, LowerText(item.subreddit))
    /\ Len(enq_log) < MaxEnq
    /\ LET msg == format_notification(item, sweep.kw, item_type, Len(enq_log) + 1,
                                         "sweep")
           pi2 == MarkSeen(processed_items, sweep.gid, item.id)
       IN /\ pending_notifications' =
                send_notification_to_group(pending_notifications, sweep.gid, msg)
          /\ enq_log' = Append(enq_log, <<sweep.gid, msg>>)
          /\ processed_items' = pi2
          /\ insert_order' = OrderAfter(insert_order, pi2)
    /\ UNCHANGED <<groups, group_entries, dispatcher, sweep, sender, pending_op,
                   sent_log, attempts, evictions, last_cmd, cmds, phrase_call, tasks, exported>>

\* search_posts after its rate-limit await (527-544): read the filters and open
\* the first target; with no target left go on to search_comments_via_posts
\* (613-616).
SearchPostsStart ==
    /\ sweep.pc = "posts_start"
    /\ LET f == SearchFilters(groups, sweep.gid)
           targets == IF f.subreddits # {} THEN f.subreddits ELSE {AllTarget}
           open == OpenTargets(targets, f.blacklist)
           sw == [sweep EXCEPT !.subreddits = f.subreddits, !.blacklist = f.blacklist]
       IN IF open = {}
          THEN /\ sweep' = [sw EXCEPT !.pc = "comments_start", !.targets = {}]
               /\ processed_items' = EnsureSet(processed_items, sweep.gid)
          ELSE /\ \E sr \in open :
                    sweep' = [sw EXCEPT !.pc = "posts_results", !.target = sr,
                                        !.targets = open \ {sr}]
               /\ processed_items' = processed_items
    /\ UNCHANGED <<groups, group_entries, pending_notifications, dispatcher, sender,
                   pending_op, enq_log, sent_log, attempts, insert_order, evictions,
                   last_cmd, cmds, phrase_call, tasks, exported>>

\* 546-597: the search delivers a post.
SearchPostsItem(p) ==
    /\ sweep.pc = "posts_results"
    /\ p \in SearchResults(Posts, sweep.target)
    /\ SweepItem(p, "post")

\* The results of the current target are exhausted (540-546, then 603, 613-616).
SearchPostsNext ==
    /\ sweep.pc = "posts_results"
    /\ IF sweep.targets = {}
       THEN /\ sweep' = [sweep EXCEPT !.pc = "comments_start"]
            /\ processed_items' = EnsureSet(processed_items, sweep.gid)
       ELSE /\ \E sr \in sweep.targets :
                 sweep' = [sweep EXCEPT !.target = sr, !.targets = sweep.targets \ {sr}]
            /\ processed_items' = processed_items
    /\ UNCHANGED <<groups, group_entries, pending_notifications, dispatcher, sender,
                   pending_op, enq_log, sent_log, attempts, insert_order, evictions,
                   last_cmd, cmds, phrase_call, tasks, exported>>

\* The sweep leaves a finished search_keyword_for_group (688, 788-792) and runs
\* to its next suspension.
SearchDone(sw) ==
    /\ \E o \in KeywordLoop(groups, group_entries, sw) : SweepMoveTo(o, processed_items)
    /\ UNCHANGED <<groups, group_entries, pending_notifications, dispatcher, sender,
                   pending_op, enq_log, sent_log, attempts, last_cmd, cmds, phrase_call, tasks, exported>>

\* search_comments_via_posts after its rate-limit await (616-635).
SearchCommentsStart ==
    /\ sweep.pc = "comments_start"
    /\ LET f == SearchFilters(groups, sweep.gid)
           targets == IF f.subreddits # {} THEN f.subreddits ELSE {AllTarget}
           open == OpenTargets(targets, f.blacklist)
           sw == [sweep EXCEPT !.subreddits = f.subreddits, !.blacklist = f.blacklist]
       IN IF open = {}
          THEN SearchDone(sw)
          ELSE /\ \E sr \in open :
                    sweep' = [sw EXCEPT !.pc = "comments_results", !.target = sr,
                                        !.targets = open \ {sr}]
               /\ UNCHANGED <<groups, group_entries, processed_items,
                              pending_notifications, dispatcher, sender, pending_op,
                              enq_log, sent_log, attempts, insert_order, evictions,
                              last_cmd, cmds, phrase_call, tasks, exported>>

\* 659-682: a comment of a recent post of the target.
SearchCommentsItem(c) ==
    /\ sweep.pc = "comments_results"
    /\ c \in SearchResults(Comments, sweep.target)
    /\ SweepItem(c, "comment")

\* The posts of the current target are exhausted (629-635, then 688).
SearchCommentsNext ==
    /\ sweep.pc = "comments_results"
    /\ IF sweep.targets = {}
       THEN SearchDone(sweep)
       ELSE /\ \E sr \in sweep.targets :
                 sweep' = [sweep EXCEPT !.target = sr, !.targets = sweep.targets \ {sr}]
            /\ UNCHANGED <<groups, group_entries, processed_items, pending_notifications,
                           dispatcher, sender, pending_op, enq_log, sent_log, attempts,
                           insert_order, evictions, last_cmd, cmds, phrase_call, tasks, exported>>

Sweep ==
    \/ SweepStart
    \/ SearchPostsStart
    \/ \E p \in Posts : SearchPostsItem(p)
    \/ SearchPostsNext
    \/ SearchCommentsStart
    \/ \E c \in Comments : SearchCommentsItem(c)
    \/ SearchCommentsNext

\* The search of posts raises (the request of 544 or 546 fails): the handler of
\* 605 logs it, search_posts returns and search_keyword_for_group goes on with
\* search_comments_via_posts (786), as after the last target.
SearchPostsFails ==
    /\ sweep.pc \in {"posts_start", "posts_results"}
    /\ sweep' = [sweep EXCEPT !.pc = "comments_start", !.failed = TRUE]
    /\ processed_items' = EnsureSet(processed_items, sweep.gid)
    /\ UNCHANGED <<groups, group_entries, pending_notifications, dispatcher, sender,
                   pending_op, enq_log, sent_log, attempts, insert_order, evictions,
                   last_cmd, cmds, phrase_call, tasks, exported>>

\* A faulty sweep: an error of a search ends the cycle, without trim and save.
SearchErrorEndsCycle ==
    /\ sweep.pc \in {"comments_start", "comments_results"}
    /\ sweep' = [SweepIdle EXCEPT !.outcome = "aborted", !.failed = TRUE]
    /\ UNCHANGED <<groups, group_entries, processed_items, pending_notifications,
                   dispatcher, sender, pending_op, enq_log, sent_log, attempts,
                   insert_order, evictions, last_cmd, cmds, phrase_call, tasks, exported>>

\* The search of comments raises (the request of 631 or 633 fails): the handler
\* of 690 logs it; search_keyword_for_group returns (788-792) and the keyword
\* loop of monitor_reddit goes on.
SearchCommentsFails ==
    /\ sweep.pc \in {"comments_start", "comments_results"}
    /\ SearchDone([sweep EXCEPT !.failed = TRUE])

\* search_keyword_for_group raises before its searches (setup_reddit, 777-778):
\* its handler of 794 logs it and does not re-raise; the keyword loop goes on.
SearchKeywordFails ==
    /\ sweep.pc = "posts_start"
    /\ SearchDone([sweep EXCEPT !.failed = TRUE])

\* The sweep with a content source whose searches can fail.
FailingSweep == Sweep \/ SearchPostsFails \/ SearchCommentsFails \/ SearchKeywordFails

---------------------------------------------------------------------------
(* Parsing the text of a configuration update *)

\* Tokens of one comma-separated input.
MaxBatch == 2

RECURSIVE StripLeft(_)
StripLeft(t) == IF t # <<>> /\ Head(t) = " " THEN StripLeft(Tail(t)) ELSE t

RECURSIVE StripRight(_)
StripRight(t) ==
    IF t # <<>> /\ t[Len(t)] = " " THEN StripRight(SubSeq(t, 1, Len(t) - 1)) ELSE t

\* str.strip()
Strip(t) == StripRight(StripLeft(t))

\* [f(tok) for tok in toks if f(tok)]
RECURSIVE MapNonEmpty(_, _)
MapNonEmpty(f(_), toks) ==
    IF toks = <<>> THEN <<>>
    ELSE IF f(Head(toks)) = <<>> THEN MapNonEmpty(f, Tail(toks))
    ELSE <<f(Head(toks))>> \o MapNonEmpty(f, Tail(toks))

\* 1712, 2108: kw.strip().lower()
NormalKeyword(tok) == LowerText(Strip(tok))
\* 1906: kw.strip(), the case is kept
CaseKeyword(tok) == Strip(tok)

\* The characters re.sub(r'[^a-z0-9_]+', '', name) keeps.
NameChars == {"a", "b", "l", "r", "x", "y", "_"}

\* 1801-1810, 1990-1998: strip, lowercase, drop a leading r/, drop other characters.
NormalSubreddit(tok) ==
    LET name == LowerText(Strip(tok))
        bare == IF Len(name) >= 2 /\ name[1] = "r" /\ name[2] = "/"
                THEN SubSeq(name, 3, Len(name)) ELSE name
    IN SelectSeq(bare, LAMBDA c : c \in NameChars)

ParseKeywords(toks) == MapNonEmpty(NormalKeyword, toks)
ParseCaseKeywords(toks) == MapNonEmpty(CaseKeyword, toks)
ParseSubreddits(toks) == MapNonEmpty(NormalSubreddit, toks)

\* What the owner can type: keyword tokens and subreddit tokens.
KeywordTokens == {<<"a">>, <<" ", "A", " ", "b">>, <<" ">>}
SubredditTokens == {<<"r", "/", "y">>, <<" ", "X">>, <<"-">>}
TokenLists(T) == UNION {[1..n -> T] : n \in 1..MaxBatch}

\* The add loops (1722-1727, 1821-1826, 2009-2014, 2119-2124): each item is
\* skipped when present and added otherwise.
RECURSIVE AddEach(_, _, _, _)
AddEach(set, items, added, skipped) ==
    IF items = <<>> THEN [set |-> set, added |-> added, skipped |-> skipped]
    ELSE IF Head(items) \in set
         THEN AddEach(set, Tail(items), added, Append(skipped, Head(items)))
         ELSE AddEach(set \cup {Head(items)}, Tail(items), Append(added, Head(items)),
                      skipped)

\* The remove loops (1766-1771, 1872-1877, 2064-2069, 2173-2178).
RECURSIVE RemoveEach(_, _, _, _)
RemoveEach(set, items, removed, not_found) ==
    IF items = <<>> THEN [set |-> set, removed |-> removed, not_found |-> not_found]
    ELSE IF Head(items) \in set
         THEN RemoveEach(set \ {Head(items)}, Tail(items), Append(removed, Head(items)),
                         not_found)
         ELSE RemoveEach(set, Tail(items), removed, Append(not_found, Head(items)))

Range(seq) == {seq[k] : k \in 1..Len(seq)}

---------------------------------------------------------------------------
(* Configuration handlers.  Each runs without suspension up to its save_data; *)
(* the replies it awaits come after its last change of state.                 *)

ChatIds == GroupIds

\* 326-328
is_owner(chat_id) == chat_id = OwnerId

\* No pending text input: the user has no entry in menu_state.
NoOp == [state |-> "none", group_id |-> OwnerId]

\* History record of an update that ran an add or remove loop: the operation,
\* its group, its parsed input and the group's info before it ran.
Cmd(op, g, input) == [op |-> op, group |-> g, input |-> input, before |-> groups[g]]
NoCmd == [op |-> "none", group |-> OwnerId, input |-> <<>>, before |-> NewGroup]

\* The state a handler leaves: registry, dedup sets before save_data, pending
\* input, and whether it reached save_data.
Same ==
    [groups |-> groups, entries |-> group_entries, pi |-> processed_items,
     pending |-> pending_op, sweep |-> sweep, save |-> FALSE]

SetInfo(g, field, value) ==
    [Same EXCEPT !.groups = [groups EXCEPT ![g][field] = value], !.save = TRUE]

Commit(r, cmd) ==
    /\ groups' = r.groups
    /\ group_entries' = r.entries
    /\ pending_op' = r.pending
    /\ sweep' = r.sweep
    /\ last_cmd' = cmd
    /\ IF r.save
       THEN \E pi2 \in save_data(r.pi) :
                /\ processed_items' = pi2
                /\ SaveHistory(processed_items, r.pi, pi2)
       ELSE /\ processed_items' = r.pi
            /\ insert_order' = OrderAfter(insert_order, r.pi)
            /\ evictions' = evictions
    /\ UNCHANGED <<pending_notifications, dispatcher, sender, enq_log, sent_log,
                   attempts, phrase_call, tasks, exported>>

\* The entry array of self.groups has room for this many entries before the
\* dict is rebuilt.
MaxEntries == 4

\* A destination as /addgroup names it (1024-1064): platform, workspace (empty
\* for Telegram) and channel; for Telegram the channel is the chat id.
Dest(platform, workspace_id, channel_id) ==
    [platform |-> platform, workspace_id |-> workspace_id, channel_id |-> channel_id]

TelegramChat(chat) == Dest("telegram", "", chat)

\* self.slack_workspaces: the workspaces that /addslack registered.
SlackWorkspaces == {"w1", "w2"}

\* 1071: hash(f"slack:{channel_id}") & 0x7FFFFFFF, a value that depends on the
\* channel id alone.
SlackGroupId(channel_id) == IF channel_id = "c1" THEN "s1" ELSE "s2"

\* 1066-1071: the group id of a destination.
new_group_id(dest) ==
    IF dest.platform = "telegram" THEN dest.channel_id
    ELSE SlackGroupId(dest.channel_id)

\* 1082-1091: the record of a new group.
NewGroupAt(dest) ==
    [keywords |-> {}, case_sensitive_keywords |-> {}, subreddits |-> {},
     subreddit_blacklist |-> {}, enabled |-> TRUE, platform |-> dest.platform,
     channel_id |-> dest.channel_id, workspace_id |-> dest.workspace_id]

\* 1036-1060: the platform is known and, for Slack, the workspace is registered.
ValidDest(dest) ==
    /\ dest.platform \in {"telegram", "slack"}
    /\ dest.platform = "slack" => dest.workspace_id \in SlackWorkspaces

\* addgroup (1001-1110)
addgroup(chat_id, dest) ==
    /\ Len(group_entries) < MaxEntries
    /\ Commit(IF ~is_owner(chat_id) \/ ~ValidDest(dest)
                 \/ new_group_id(dest) \in DOMAIN groups
              THEN Same
              ELSE [Same EXCEPT !.groups = DictSet(groups, new_group_id(dest),
                                                   NewGroupAt(dest)),
                                !.entries = EntriesAdd(group_entries, new_group_id(dest)),
                                !.save = TRUE],
              NoCmd)

\* A removal that leaves the removed group's dedup set in place.
KeepSeen(pi, group_id) == pi

\* 1138-1139: the removed group's dedup set is deleted with it.
PurgeSeen(pi, group_id) == DictDel(pi, group_id)

\* removegroup (1112-1154).  The sweep's loop variable keeps the removed group
\* info object alive.
removegroup(chat_id, group_id) ==
    Commit(IF ~is_owner(chat_id) \/ group_id = OwnerId \/ group_id \notin DOMAIN groups
           THEN Same
           ELSE [Same EXCEPT
                   !.groups = DictDel(groups, group_id),
                   !.entries = EntriesDel(group_entries, group_id),
                   !.pi = PurgeSeen(processed_items, group_id),
                   !.sweep = IF sweep.pc # "sleep" /\ sweep.gid = group_id /\ sweep.live
                             THEN [sweep EXCEPT !.live = FALSE, !.orphan = groups[group_id]]
                             ELSE sweep,
                   !.save = TRUE],
           NoCmd)

\* togglegroup (2304-2335)
togglegroup(chat_id, group_id) ==
    Commit(IF ~is_owner(chat_id) \/ group_id \notin DOMAIN groups THEN Same
           ELSE SetInfo(group_id, "enabled", ~groups[group_id].enabled),
           NoCmd)

\* A faulty add: the batch replaces the group's keywords.
ReplaceKeywords(chat_id, group_id, toks) ==
    LET keywords == ParseKeywords(toks) IN
    Commit(IF ~is_owner(chat_id) \/ group_id \notin DOMAIN groups \/ keywords = <<>>
           THEN Same
           ELSE SetInfo(group_id, "keywords", {keywords[k] : k \in 1..Len(keywords)}),
           IF ~is_owner(chat_id) \/ group_id \notin DOMAIN groups \/ keywords = <<>>
           THEN NoCmd
           ELSE Cmd("addkeyword", group_id, keywords))

\* addkeyword (2089-2145)
addkeyword(chat_id, group_id, toks) ==
    LET keywords == ParseKeywords(toks) IN
    Commit(IF ~is_owner(chat_id) \/ group_id \notin DOMAIN groups \/ keywords = <<>>
           THEN Same
           ELSE SetInfo(group_id, "keywords",
                        AddEach(groups[group_id].keywords, keywords, <<>>, <<>>).set),
           IF ~is_owner(chat_id) \/ group_id \notin DOMAIN groups \/ keywords = <<>>
           THEN NoCmd
           ELSE Cmd("addkeyword", group_id, keywords))

\* remove_keyword_cmd (2147-2199)
remove_keyword_cmd(chat_id, group_id, toks) ==
    LET keywords == ParseKeywords(toks) IN
    Commit(IF ~is_owner(chat_id) \/ group_id \notin DOMAIN groups THEN Same
           ELSE SetInfo(group_id, "keywords",
                        RemoveEach(groups[group_id].keywords, keywords, <<>>, <<>>).set),
           IF ~is_owner(chat_id) \/ group_id \notin DOMAIN groups
           THEN NoCmd
           ELSE Cmd("removekeyword", group_id, keywords))

\* The menu buttons that open a text input, with the menu state each sets
\* (1243-1246, 1265-1278, 1295-1298, 1317-1330, 1405-1408, 1426-1440) and the
\* field whose emptiness makes the remove buttons return early.
InputButtons ==
    {"add_kw", "remove_kw", "add_sr", "remove_sr", "add_bl", "remove_bl"}
MenuStateOf(button) ==
    CASE button = "add_kw" -> "adding_keywords"
      [] button = "remove_kw" -> "removing_keywords"
      [] button = "add_sr" -> "adding_subs"
      [] button = "remove_sr" -> "removing_subs"
      [] button = "add_bl" -> "adding_blacklist"
      [] button = "remove_bl" -> "removing_blacklist"
FieldOf(button) ==
    CASE button \in {"add_kw", "remove_kw"} -> "keywords"
      [] button \in {"add_sr", "remove_sr", "clear_sr"} -> "subreddits"
      [] button \in {"add_bl", "remove_bl", "clear_bl"} -> "subreddit_blacklist"
ActionButtons == {"clear_sr", "clear_bl", "toggle"}
\* The Cancel button of the input prompts (1253, 1284, 1304, 1335): its
\* callback data is that of the group's menu.
CancelButton == "manage_group"
Buttons == InputButtons \cup ActionButtons

\* group_selection_callback (1181-1692) for the buttons above.  The chat the
\* callback comes from is not read.  A button of a
\* group that is no longer registered ends in KeyError: before any change for
\* the remove, clear and toggle buttons, after the pending input was recorded
\* for the add buttons.
CallbackResult(user_id, button, group_id) ==
    LET known == group_id \in DOMAIN groups
        opened == [Same EXCEPT !.pending = [pending_op EXCEPT ![user_id] =
                      [state |-> MenuStateOf(button), group_id |-> group_id]]]
    IN CASE button \in {"add_kw", "add_sr", "add_bl"} -> opened
         [] button \in {"remove_kw", "remove_sr", "remove_bl"} ->
              IF ~known THEN Same
              ELSE IF groups[group_id][FieldOf(button)] = {} THEN Same
              ELSE opened
         [] button \in {"clear_sr", "clear_bl"} ->
              IF ~known THEN Same ELSE SetInfo(group_id, FieldOf(button), {})
         [] button = "toggle" ->
              IF ~known THEN Same
              ELSE SetInfo(group_id, "enabled", ~groups[group_id].enabled)
         [] button = CancelButton -> Same

\* The menu branch (1190-1240) shows the group's menu, or "Group not found",
\* and assigns nothing; last_cmd records that it was shown.
group_selection_callback(chat_id, user_id, button, group_id) ==
    Commit(CallbackResult(user_id, button, group_id),
           IF button = CancelButton /\ group_id \in DOMAIN groups
           THEN Cmd(CancelButton, group_id, <<>>) ELSE NoCmd)

\* 2009-2017: the blacklist add loop; a name newly blacklisted is also taken
\* out of the whitelist.
RECURSIVE BlacklistEach(_, _, _)
BlacklistEach(info, subs, added) ==
    IF subs = <<>> THEN [info |-> info, added |-> added]
    ELSE LET sr == Head(subs) IN
         IF sr \in info.subreddit_blacklist THEN BlacklistEach(info, Tail(subs), added)
         ELSE BlacklistEach(
                [info EXCEPT !.subreddit_blacklist = @ \cup {sr},
                             !.subreddits = @ \ {sr}],
                Tail(subs), Append(added, sr))

\* The parsed input of a text message in menu state st.
ParsedInput(st, toks) ==
    IF st \in {"adding_keywords", "removing_keywords"} THEN ParseKeywords(toks)
    ELSE ParseSubreddits(toks)

\* handle_message (1694-2087): the text input that a menu button opened.
\* Without valid items it returns and the input stays pending; an empty list
\* does the same for the two subreddit removals (1866-1868, 2057-2060); a group
\* that is no longer registered ends in KeyError with the input still pending.
MessageResult(user_id, chat_id, toks) ==
    LET st == pending_op[user_id].state
        g == pending_op[user_id].group_id
        items == ParsedInput(st, toks)
        closed == [pending_op EXCEPT ![user_id] = NoOp]
        Done(info) == [Same EXCEPT !.groups = [groups EXCEPT ![g] = info],
                                   !.pending = closed, !.save = TRUE]
    IN IF ~is_owner(chat_id) \/ st = "none" \/ items = <<>> \/ g \notin DOMAIN groups
       THEN Same
       ELSE LET info == groups[g] IN
         CASE st = "adding_keywords" ->
                Done([info EXCEPT !.keywords = AddEach(@, items, <<>>, <<>>).set])
           [] st = "removing_keywords" ->
                Done([info EXCEPT !.keywords = RemoveEach(@, items, <<>>, <<>>).set])
           [] st = "adding_subs" ->
                Done([info EXCEPT !.subreddits = AddEach(@, items, <<>>, <<>>).set])
           [] st = "removing_subs" ->
                IF info.subreddits = {} THEN Same
                ELSE Done([info EXCEPT !.subreddits =
                                          RemoveEach(@, items, <<>>, <<>>).set])
           [] st = "adding_blacklist" -> Done(BlacklistEach(info, items, <<>>).info)
           [] st = "removing_blacklist" ->
                IF info.subreddit_blacklist = {} THEN Same
                ELSE Done([info EXCEPT !.subreddit_blacklist =
                                          RemoveEach(@, items, <<>>, <<>>).set])

handle_message(user_id, chat_id, toks) ==
    LET st == pending_op[user_id].state
        r == MessageResult(user_id, chat_id, toks)
    IN Commit(r, IF st = "adding_blacklist" /\ r.save
                 THEN Cmd(st, pending_op[user_id].group_id, ParsedInput(st, toks))
                 ELSE NoCmd)

---------------------------------------------------------------------------
(* Start-up: load_data (111-212) *)

\* No bot_data.json and no BOT_DATA_JSON.
NoData == [present |-> FALSE, valid |-> TRUE, order |-> <<>>, groups |-> EmptyDict,
           processed_items |-> EmptyDict]

\* A file or an environment value that cannot be read as JSON (truncated,
\* unreadable, not JSON).
Malformed == [NoData EXCEPT !.present = TRUE, !.valid = FALSE]

\* 133-152: a stored group; only the blacklist is lowercased on loading, and
\* an entry without case-sensitive keywords gets the empty set (141).
LoadedGroup(stored) ==
    [f \in DOMAIN stored \cup {"case_sensitive_keywords"} |->
        IF f = "subreddit_blacklist" THEN {LowerText(sr) : sr \in stored[f]}
        ELSE IF f \in DOMAIN stored THEN stored[f]
        ELSE {}]

\* No /exportdata so far.
NoExport == [json |-> NoData, at |-> EmptyDict]

\* A key of the stored groups that int() rejects (136).
BadKey == "oops"

\* load_data without the block that adds the owner's group (165-176).
LoadWithoutOwner(data) ==
    [groups |-> [g \in Range(data.order) \cap GroupIds |-> data.groups[g]],
     entries |-> data.order, processed_items |-> data.processed_items]

\* 130-195: the registry, its entry order and the dedup sets that load_data
\* builds from the parsed `data`: the stored groups in file order, then the
\* owner's group if the data lacks it (165-176); without data the owner's group
\* alone (181-195); the owner's group alone also when a key of the stored
\* groups or of the stored dedup sets makes int() raise (136, 161, 197-212).
LoadParsed(data) ==
    IF data.present /\ \/ \E k \in Range(data.order) : k = BadKey
                       \/ BadKey \in DOMAIN data.processed_items
    THEN [groups |-> DictSet(EmptyDict, OwnerId, NewGroup), entries |-> <<OwnerId>>,
          processed_items |-> EmptyDict]
    ELSE IF ~data.present \/ (data.order = <<>> /\ DOMAIN data.processed_items = {})
    THEN [groups |-> DictSet(EmptyDict, OwnerId, NewGroup), entries |-> <<OwnerId>>,
          processed_items |-> EmptyDict]
    ELSE LET loaded == [g \in Range(data.order) |-> LoadedGroup(data.groups[g])] IN
         [groups |-> IF OwnerId \in DOMAIN loaded THEN loaded
                     ELSE DictSet(loaded, OwnerId, NewGroup),
          entries |-> IF OwnerId \in DOMAIN loaded THEN data.order
                      ELSE Append(data.order, OwnerId),
          processed_items |-> data.processed_items]

\* The owner's group alone, as the handler of 197-212 leaves the registry.
OwnerOnly ==
    [groups |-> DictSet(EmptyDict, OwnerId, NewGroup), entries |-> <<OwnerId>>,
     processed_items |-> EmptyDict]

\* Does reading the parsed `data` raise (136, 161)?
RaisesOnKey(data) ==
    data.present /\ \/ \E k \in Range(data.order) : k = BadKey
                    \/ BadKey \in DOMAIN data.processed_items

\* Which source load_data reads (117-128): the environment value if it is set
\* and parses, else the file.
LoadSource(env, file) == IF env.present /\ env.valid THEN env ELSE file

\* Does load_data end in its handler of 197-212?
LoadFails(env, file) ==
    \/ LoadSource(env, file).present /\ ~LoadSource(env, file).valid
    \/ RaisesOnKey(LoadSource(env, file))

\* The line load_data logs: 121 / 129 for the source it read, 194 when it
\* starts fresh, 198 when it failed.
LoadLog(env, file) ==
    IF LoadFails(env, file) THEN "Error loading data"
    ELSE IF LoadParsed(LoadSource(env, file)) = OwnerOnly
            /\ LoadSource(env, file).order = <<>>
    THEN "No existing data found, starting fresh"
    ELSE IF env.present /\ env.valid THEN "Loaded data from environment variable"
    ELSE "Loaded data from file"

\* A load_data whose handler keeps what was loaded before the failure.
LoadKeepsPartial(env, file) ==
    IF LoadSource(env, file).present /\ ~LoadSource(env, file).valid THEN OwnerOnly
    ELSE LET data == LoadSource(env, file)
             read == SelectSeq(data.order, LAMBDA k : k # BadKey)
         IN LoadParsed([data EXCEPT !.order = read,
                                    !.groups = [g \in Range(read) |-> data.groups[g]],
                                    !.processed_items = EmptyDict])

\* load_data (111-212) with `env` in BOT_DATA_JSON and `file` in bot_data.json:
\* the environment value is read first and, when it is missing or cannot be
\* parsed, the file (117-128); a file that cannot be read or parsed raises, and
\* the handler of 197-212 starts with the owner's group alone.
load_data(env, file) ==
    IF env.present /\ env.valid THEN LoadParsed(env)
    ELSE IF file.present /\ ~file.valid THEN OwnerOnly
    ELSE LoadParsed(file)

\* Files a previous run can have saved.
OwnerWithKeyword == [NewGroup EXCEPT !.keywords = {KwA}]
OtherPlain == [NewGroup EXCEPT !.keywords = {KwA}]
OtherFiltered ==
    [NewGroup EXCEPT !.case_sensitive_keywords = {CkB}, !.subreddit_blacklist = {SubY}]
OtherDisabled ==
    [NewGroup EXCEPT !.keywords = {KwA}, !.subreddits = {SubX}, !.enabled = FALSE]

StoredFile(order, owner, other, pi) ==
    [present |-> TRUE, valid |-> TRUE, order |-> order,
     groups |-> [g \in Range(order) |-> IF g = OwnerId THEN owner ELSE other],
     processed_items |-> pi]

StoredFiles ==
    { NoData,
      StoredFile(<<OwnerId>>, OwnerWithKeyword, NewGroup, EmptyDict),
      StoredFile(<<OwnerId, OtherId>>, NewGroup, OtherFiltered, EmptyDict),
      StoredFile(<<OwnerId, OtherId>>, OwnerWithKeyword, OtherDisabled, EmptyDict) }

\* How a destination's sender answers: always with success, always with an
\* error, or either way from one attempt to the next.
SenderModes == {"ok", "fail", "flaky"}

\* start_bot (2543-2595) has set up the client (2546), created the dispatcher's
\* task (2585) and the stream's task (2589) and runs monitoring_loop itself
\* (2593); the stop flags are as __init__ left them (102-103).  stream is the
\* position of stream_comments, monitoring that of monitoring_loop,
\* notification that of notification_processor; loop is the event loop of
\* asyncio.run (2661).  slept and failures are history: the seconds of the
\* stream's last cooldown and its errors since it last opened a subscription.
TasksStarted ==
    [stream |-> "setup", monitoring |-> "running", notification |-> "running",
     reddit |-> TRUE, stop_stream |-> FALSE, stop_notification_processor |-> FALSE,
     loop |-> "running", slept |-> 0, failures |-> 0]

\* The state after __init__ (37-109) with `data` on disk and no BOT_DATA_JSON.
InitFrom(data) ==
    /\ groups = load_data(NoData, data).groups
    /\ group_entries = load_data(NoData, data).entries
    /\ processed_items = load_data(NoData, data).processed_items
    /\ pending_notifications = <<>>
    /\ dispatcher = DispatcherIdle
    /\ sweep = SweepIdle
    /\ pending_op = [u \in UserIds |-> NoOp]
    /\ enq_log = <<>>
    /\ sent_log = <<>>
    /\ attempts = [n \in 1..MaxEnq |-> 0]
    /\ evictions = {}
    /\ last_cmd = NoCmd
    /\ cmds = 0
    /\ phrase_call = NoCall
    /\ tasks = TasksStarted
    /\ exported = NoExport

Init ==
    /\ \E data \in StoredFiles : InitFrom(data)
    /\ insert_order = [g \in GroupIds |-> <<>>]
    /\ sender \in [GroupIds -> SenderModes]

---------------------------------------------------------------------------
(* The system *)

Stream == \E c \in Comments : StreamComment(c)

\* One configuration update, counted.
Counted == cmds < MaxCmds /\ cmds' = cmds + 1

Configure ==
    \/ \E chat \in ChatIds, g \in GroupIds : Counted /\ addgroup(chat, TelegramChat(g))
    \/ \E chat \in ChatIds, g \in GroupIds : Counted /\ removegroup(chat, g)
    \/ \E chat \in ChatIds, g \in GroupIds : Counted /\ togglegroup(chat, g)
    \/ \E chat \in ChatIds, g \in GroupIds, toks \in TokenLists(KeywordTokens) :
          Counted /\ addkeyword(chat, g, toks)
    \/ \E chat \in ChatIds, g \in GroupIds, toks \in TokenLists(KeywordTokens) :
          Counted /\ remove_keyword_cmd(chat, g, toks)
    \/ \E chat \in ChatIds, u \in UserIds, b \in Buttons, g \in GroupIds :
          Counted /\ group_selection_callback(chat, u, b, g)
    \/ \E u \in UserIds, chat \in ChatIds,
          toks \in TokenLists(KeywordTokens) \cup TokenLists(SubredditTokens) :
          Counted /\ handle_message(u, chat, toks)

Next == Stream \/ Sweep \/ Dispatcher \/ Configure

Spec == Init /\ [][Next]_vars

---------------------------------------------------------------------------
(* The producers and the configuration handlers, without the dispatcher: the *)
(* queue only grows.                                                          *)

InitProducers ==
    /\ \E data \in StoredFiles : InitFrom(data)
    /\ insert_order = [g \in GroupIds |-> <<>>]
    /\ sender = [g \in GroupIds |-> "ok"]

NextProducers == Stream \/ Sweep \/ Configure

SpecProducers == InitProducers /\ [][NextProducers]_vars

---------------------------------------------------------------------------
(* The producers and the dispatcher over a registry that does not change. *)

DeliveryFile == StoredFile(<<OwnerId, OtherId>>, OwnerWithKeyword, OtherPlain, EmptyDict)

InitDelivery ==
    /\ InitFrom(DeliveryFile)
    /\ insert_order = [g \in GroupIds |-> <<>>]
    /\ sender \in [GroupIds -> SenderModes]

NextDelivery == Stream \/ Sweep \/ Dispatcher

SpecDelivery == InitDelivery /\ [][NextDelivery]_vars

\* The dispatcher is a task of its own whose loop never ends (399-428) and whose
\* sleeps and sends return: each of its steps is taken once it stays possible.
SpecDeliveryFair ==
    /\ SpecDelivery
    /\ WF_vars(DispatchPop) /\ WF_vars(DispatchSendOk) /\ WF_vars(DispatchSendFail)

---------------------------------------------------------------------------
(* The producers over dedup sets that a previous run filled, so that the *)
(* trims find something to evict.                                        *)

\* The dedup sets of the stored file, and the order in which the previous run
\* inserted their ids.
StoredSeen == DictSet(EmptyDict, OwnerId, StoredIds)
StoredOrders == {<<"o1", "o2">>, <<"o2", "o1">>}

OwnerWatchful == [NewGroup EXCEPT !.keywords = {KwA}, !.case_sensitive_keywords = {CkB}]
TrimFile == StoredFile(<<OwnerId>>, OwnerWatchful, NewGroup, StoredSeen)

InitTrim ==
    /\ InitFrom(TrimFile)
    /\ \E o \in StoredOrders :
          insert_order = [g \in GroupIds |-> IF g = OwnerId THEN o ELSE <<>>]
    /\ sender = [g \in GroupIds |-> "ok"]

NextTrim ==
    \/ Stream
    \/ Sweep
    \/ \E chat \in ChatIds, g \in GroupIds : Counted /\ togglegroup(chat, g)

SpecTrim == InitTrim /\ [][NextTrim]_vars

---------------------------------------------------------------------------
(* The menu of the subreddit filters alone: its buttons and text inputs. *)

FilterButtons == {b \in Buttons : b \notin {"add_kw", "remove_kw", "toggle"}}

InitConfig ==
    /\ InitFrom(NoData)
    /\ insert_order = [g \in GroupIds |-> <<>>]
    /\ sender = [g \in GroupIds |-> "ok"]

NextConfig ==
    \/ \E chat \in ChatIds, u \in UserIds, b \in FilterButtons, g \in GroupIds :
          group_selection_callback(chat, u, b, g) /\ UNCHANGED cmds
    \/ \E u \in UserIds, chat \in ChatIds, toks \in TokenLists(SubredditTokens) :
          handle_message(u, chat, toks) /\ UNCHANGED cmds

SpecConfig == InitConfig /\ [][NextConfig]_vars

---------------------------------------------------------------------------
(* The producers and the dispatcher with destinations on both platforms that *)
(* may throttle.                                                            *)

OtherSlack == [NewGroup EXCEPT !.keywords = {KwA}, !.platform = "slack"]
ThrottleFile == StoredFile(<<OwnerId, OtherId>>, OwnerWithKeyword, OtherSlack, EmptyDict)
ThrottleModes == {"ok", "fail", "throttled", "choked"}

InitThrottle ==
    /\ InitFrom(ThrottleFile)
    /\ insert_order = [g \in GroupIds |-> <<>>]
    /\ sender \in [GroupIds -> ThrottleModes]

NextThrottle == Stream \/ Sweep \/ ThrottledDispatcher

SpecThrottle == InitThrottle /\ [][NextThrottle]_vars

---------------------------------------------------------------------------
(* The two producers over registries that do not change, with groups that  *)
(* differ in their keywords of both kinds, their filters and their enabled *)
(* flag.                                                                   *)

OwnerBothKinds ==
    [NewGroup EXCEPT !.keywords = {KwA, KwAB}, !.case_sensitive_keywords = {CkA}]
OtherAllowX == [NewGroup EXCEPT !.keywords = {KwA}, !.subreddits = {SubX}]
OwnerCaseOnly ==
    [NewGroup EXCEPT !.case_sensitive_keywords = {CkA, CkB}, !.subreddit_blacklist = {SubY}]

MatchFiles ==
    { StoredFile(<<OwnerId, OtherId>>, OwnerBothKinds, OtherAllowX, EmptyDict),
      StoredFile(<<OwnerId, OtherId>>, OwnerBothKinds, OtherFiltered, EmptyDict),
      StoredFile(<<OwnerId, OtherId>>, OwnerWatchful, OtherFiltered, EmptyDict),
      StoredFile(<<OtherId, OwnerId>>, OwnerCaseOnly, OtherDisabled, EmptyDict) }

InitMatch ==
    /\ \E data \in MatchFiles : InitFrom(data)
    /\ insert_order = [g \in GroupIds |-> <<>>]
    /\ sender = [g \in GroupIds |-> "ok"]

NextMatch == Stream \/ Sweep

SpecMatch == InitMatch /\ [][NextMatch]_vars

---------------------------------------------------------------------------
(* The configuration handlers alone, from every kind of stored data: a file *)
(* without the owner's group and a file that cannot be read included.       *)

\* Handler calls in one behaviour.
MaxOps == 3

OwnerlessFile == StoredFile(<<OtherId>>, NewGroup, OtherDisabled, EmptyDict)
CorruptFile == StoredFile(<<OtherId, BadKey>>, NewGroup, OtherPlain, EmptyDict)
RegistryFiles == StoredFiles \cup {OwnerlessFile, CorruptFile}

InitRegistry ==
    /\ \E data \in RegistryFiles : InitFrom(data)
    /\ insert_order = [g \in GroupIds |-> <<>>]
    /\ sender = [g \in GroupIds |-> "ok"]

CountedOp == cmds < MaxOps /\ cmds' = cmds + 1

NextRegistry ==
    \/ \E chat \in ChatIds, g \in GroupIds : CountedOp /\ addgroup(chat, TelegramChat(g))
    \/ \E chat \in ChatIds, g \in GroupIds : CountedOp /\ removegroup(chat, g)
    \/ \E chat \in ChatIds, g \in GroupIds : CountedOp /\ togglegroup(chat, g)
    \/ \E chat \in ChatIds, g \in GroupIds, toks \in TokenLists(KeywordTokens) :
          CountedOp /\ addkeyword(chat, g, toks)
    \/ \E chat \in ChatIds, g \in GroupIds, toks \in TokenLists(KeywordTokens) :
          CountedOp /\ remove_keyword_cmd(chat, g, toks)
    \/ \E chat \in ChatIds, u \in UserIds, b \in Buttons, g \in GroupIds :
          CountedOp /\ group_selection_callback(chat, u, b, g)
    \/ \E u \in UserIds, chat \in ChatIds,
          toks \in TokenLists(KeywordTokens) \cup TokenLists(SubredditTokens) :
          CountedOp /\ handle_message(u, chat, toks)

SpecRegistry == InitRegistry /\ [][NextRegistry]_vars

\* The handlers that add, remove and switch groups, with destinations on both
\* platforms: the same Slack channel in two workspaces, a workspace that is not
\* registered and a platform that is not supported.
Destinations ==
    { TelegramChat(OwnerId), TelegramChat(OtherId),
      Dest("slack", "w1", "c1"), Dest("slack", "w2", "c1"), Dest("slack", "w1", "c2"),
      Dest("slack", "w9", "c1"), Dest("irc", "", "c1") }

DestinationIds == {new_group_id(dest) : dest \in Destinations}

NextDestinations ==
    \/ \E chat \in ChatIds, dest \in Destinations : CountedOp /\ addgroup(chat, dest)
    \/ \E chat \in ChatIds, g \in DestinationIds : CountedOp /\ removegroup(chat, g)
    \/ \E chat \in ChatIds, g \in DestinationIds : CountedOp /\ togglegroup(chat, g)

SpecDestinations == InitRegistry /\ [][NextDestinations]_vars

\* Stopping and starting again: what save_data writes and what the next
\* process loads.

\* 272-284: one group as save_data writes it, with the defaults of its .get
\* calls for a record that lacks a field.
StoredGroup(group_info, group_id) ==
    [keywords |-> group_info.keywords,
     case_sensitive_keywords |-> group_info.case_sensitive_keywords,
     subreddits |-> group_info.subreddits,
     subreddit_blacklist |-> group_info.subreddit_blacklist,
     enabled |-> group_info.enabled,
     platform |-> IF "platform" \in DOMAIN group_info THEN group_info.platform
                  ELSE "telegram",
     channel_id |-> IF "channel_id" \in DOMAIN group_info THEN group_info.channel_id
                    ELSE group_id,
     workspace_id |-> IF "workspace_id" \in DOMAIN group_info
                      THEN group_info.workspace_id ELSE ""]

\* 271-302: the content of bot_data.json after save_data wrote the registry
\* `regs` (entry array `entries`) and the trimmed dedup sets `pi`.
Saved(regs, entries, pi) ==
    [present |-> TRUE, valid |-> TRUE, order |-> LiveKeys(entries),
     groups |-> [g \in DOMAIN regs |-> StoredGroup(regs[g], g)],
     processed_items |-> pi]

\* A snapshot of the data that an operator put into BOT_DATA_JSON earlier.
EnvSnapshot == StoredFile(<<OwnerId, OtherId>>, OwnerWithKeyword, OtherDisabled, EmptyDict)

\* What BOT_DATA_JSON can hold when a process starts.
EnvValues == {NoData, Malformed, EnvSnapshot}

\* __init__ (37-109) of a new process that finds `env` in BOT_DATA_JSON and
\* `file` in bot_data.json: nothing of the old process is left but the data.
Start(env, file) ==
    /\ groups' = load_data(env, file).groups
    /\ group_entries' = load_data(env, file).entries
    /\ processed_items' = load_data(env, file).processed_items
    /\ insert_order' = OrderAfter(OrderAfter(insert_order, processed_items'),
                                  processed_items')
    /\ pending_notifications' = <<>>
    /\ dispatcher' = DispatcherIdle
    /\ sweep' = SweepIdle
    /\ pending_op' = [u \in UserIds |-> NoOp]
    /\ last_cmd' = Cmd(LoadLog(env, file), OwnerId, <<>>)
    /\ UNCHANGED <<sender, enq_log, sent_log, attempts, evictions, phrase_call, tasks, exported>>

\* cleanup (2597-2622) saves the data and the process ends; the next process
\* starts from the file that save_data wrote.
Restart(env) ==
    \E pi2 \in save_data(processed_items) :
        Start(env, Saved(groups, group_entries, pi2))

\* The write of 299-301 failed (the failure is logged, 303) or the file was
\* damaged or lost afterwards: the next process finds no file, a file that is
\* not JSON or a file with a key, of a group or of a dedup set, that is no
\* number.
CorruptSeenFile ==
    StoredFile(<<OwnerId, OtherId>>, OwnerWithKeyword, OtherPlain,
               DictSet(EmptyDict, BadKey, {"o1"}))

DamagedFiles == {NoData, Malformed, CorruptFile, CorruptSeenFile}

RestartDamaged(env, file) ==
    /\ file \in DamagedFiles
    /\ Start(env, file)

PersistDestinations == {TelegramChat(OtherId), Dest("slack", "w1", "c1")}
PersistIds == GroupIds \cup {new_group_id(dest) : dest \in PersistDestinations}
PersistTokens == {<<KwA>>, <<CkB>>}

NextPersist ==
    \/ \E chat \in ChatIds, dest \in PersistDestinations : CountedOp /\ addgroup(chat, dest)
    \/ \E chat \in ChatIds, g \in PersistIds : CountedOp /\ togglegroup(chat, g)
    \/ \E chat \in ChatIds, g \in PersistIds, toks \in PersistTokens :
          CountedOp /\ addkeyword(chat, g, toks)
    \/ \E c \in Comments : StreamComment(c)
    \/ \E env \in EnvValues : CountedOp /\ Restart(env)
    \/ \E env \in EnvValues, file \in DamagedFiles : CountedOp /\ RestartDamaged(env, file)

SpecPersist == InitRegistry /\ [][NextPersist]_vars

---------------------------------------------------------------------------
(* The stream and the dispatcher while the owner removes and toggles groups. *)

\* The other group was registered before the owner's, so that its envelope of
\* a comment is queued ahead of the owner's.
QueueFile == StoredFile(<<OtherId, OwnerId>>, OwnerWithKeyword, OtherPlain, EmptyDict)

InitQueue ==
    /\ InitFrom(QueueFile)
    /\ insert_order = [g \in GroupIds |-> <<>>]
    /\ sender \in [GroupIds -> SenderModes]

NextQueue ==
    \/ Stream
    \/ Dispatcher
    \/ CountedOp /\ removegroup(OwnerId, OtherId)
    \/ CountedOp /\ togglegroup(OwnerId, OtherId)

SpecQueue == InitQueue /\ [][NextQueue]_vars

---------------------------------------------------------------------------
(* The producers over a source in which a comment has the id of a post.     *)
(* post.id and comment.id are the bare base-36 ids of two separate          *)
(* sequences; the same string can name a post and a comment.                *)

SameIdComment ==
    [id |-> "t3", kind |-> "comment", subreddit |-> <<"x">>, title |-> <<>>,
     body |-> <<"a">>]

InitKinds ==
    /\ InitFrom(DeliveryFile)
    /\ insert_order = [g \in GroupIds |-> <<>>]
    /\ sender = [g \in GroupIds |-> "ok"]

NextKinds == Stream \/ StreamEvaluates(SameIdComment) \/ Sweep

SpecKinds == InitKinds /\ [][NextKinds]_vars

---------------------------------------------------------------------------
(* The input prompts of the menu, their Cancel button and the text that     *)
(* follows.                                                                 *)

\* The prompts for keywords and for the allow list.
CancelPrompts == {"add_kw", "remove_kw", "add_sr", "remove_sr"}

NextCancel ==
    \/ \E chat \in ChatIds, u \in UserIds, b \in CancelPrompts, g \in GroupIds :
          group_selection_callback(chat, u, b, g) /\ UNCHANGED cmds
    \/ \E chat \in ChatIds, u \in UserIds, g \in GroupIds :
          group_selection_callback(chat, u, CancelButton, g) /\ UNCHANGED cmds
    \/ \E u \in UserIds, chat \in ChatIds,
          toks \in TokenLists(SubredditTokens) :
          handle_message(u, chat, toks) /\ UNCHANGED cmds

SpecCancel == InitConfig /\ [][NextCancel]_vars

---------------------------------------------------------------------------
(* /exportdata: the JSON the owner is told to put into BOT_DATA_JSON. *)

\* 2378-2387: one group as export_data writes it.
ExportedGroup(group_info, group_id) ==
    [keywords |-> group_info.keywords,
     subreddits |-> group_info.subreddits,
     subreddit_blacklist |-> group_info.subreddit_blacklist,
     enabled |-> group_info.enabled,
     platform |-> IF "platform" \in DOMAIN group_info THEN group_info.platform
                  ELSE "telegram",
     channel_id |-> IF "channel_id" \in DOMAIN group_info THEN group_info.channel_id
                    ELSE group_id,
     workspace_id |-> IF "workspace_id" \in DOMAIN group_info
                      THEN group_info.workspace_id ELSE ""]

\* 2375-2401: the JSON that export_data sends to the owner.
ExportedData(regs, entries, pi) ==
    [present |-> TRUE, valid |-> TRUE, order |-> LiveKeys(entries),
     groups |-> [g \in DOMAIN regs |-> ExportedGroup(regs[g], g)],
     processed_items |-> pi]

\* export_data (2366-2440): for the owner, build the JSON from the registry and
\* the dedup sets (2375-2401), call save_data (2404) and reply with the JSON.
export_data(chat_id) ==
    /\ IF is_owner(chat_id)
       THEN /\ exported' = [json |-> ExportedData(groups, group_entries, processed_items),
                            at |-> groups]
            /\ \E pi2 \in save_data(processed_items) :
                  /\ processed_items' = pi2
                  /\ SaveHistory(processed_items, processed_items, pi2)
       ELSE UNCHANGED <<exported, processed_items, insert_order, evictions>>
    /\ last_cmd' = NoCmd
    /\ UNCHANGED <<groups, group_entries, pending_notifications, dispatcher, sweep,
                   sender, pending_op, enq_log, sent_log, attempts, phrase_call, tasks>>

\* The owner has put the exported JSON into BOT_DATA_JSON and the service is
\* deployed again: a new process starts with it, whatever file it finds.
RestartFromExport(file) ==
    /\ exported.json.present
    /\ file \in {NoData, Saved(groups, group_entries, processed_items)}
    /\ Start(exported.json, file)

\* Files with case-sensitive keywords, filters and a disabled group.
ExportFiles ==
    { StoredFile(<<OwnerId, OtherId>>, OwnerWatchful, OtherFiltered, EmptyDict),
      StoredFile(<<OwnerId, OtherId>>, OwnerWithKeyword, OtherDisabled, StoredSeen) }

InitExport ==
    /\ \E data \in ExportFiles : InitFrom(data)
    /\ insert_order = [g \in GroupIds |-> <<>>]
    /\ sender = [g \in GroupIds |-> "ok"]

NextExport ==
    \/ \E chat \in ChatIds, dest \in PersistDestinations : CountedOp /\ addgroup(chat, dest)
    \/ \E chat \in ChatIds, g \in PersistIds : CountedOp /\ togglegroup(chat, g)
    \/ \E chat \in ChatIds, g \in PersistIds, toks \in PersistTokens :
          CountedOp /\ addkeyword(chat, g, toks)
    \/ \E chat \in ChatIds : CountedOp /\ export_data(chat)
    \/ \E file \in {NoData, Saved(groups, group_entries, processed_items)} :
          CountedOp /\ RestartFromExport(file)

SpecExport == InitExport /\ [][NextExport]_vars

---------------------------------------------------------------------------
(* The three long-lived tasks, the errors of the content source and the end *)
(* of the process.                                                           *)

\* Everything but the tasks.
data_vars == <<groups, group_entries, processed_items, pending_notifications,
               dispatcher, sweep, sender, pending_op, enq_log, sent_log, attempts,
               insert_order, evictions, last_cmd, cmds, phrase_call, exported>>

\* 772: seconds the stream waits before it retries.
StreamCooldown == 30

\* Consecutive errors of the stream that the history counts.
MaxFailures == 3

\* A task whose coroutine has ended: it returned or a CancelledError left it.
Ended == {"returned", "cancelled"}

\* The event loop runs the tasks until asyncio.run has closed it.
LoopRuns == tasks.loop \in {"running", "teardown"}

CountFailure(n) == IF n < MaxFailures THEN n + 1 ELSE n

\* A faulty handler: the stream's task gives up after an error.
StreamGivesUp(t) == [t EXCEPT !.stream = "returned", !.reddit = FALSE]

\* 765-772: the handler closed the client, or found none, and starts its sleep.
StreamCoolsDown(t) == [t EXCEPT !.stream = "cooldown", !.reddit = FALSE,
                                !.slept = StreamCooldown]

\* 697: the loop test of stream_comments: with stop_stream set the coroutine
\* returns, else the next round starts at 699.
StreamLoopTest(t) == [t EXCEPT !.stream = IF t.stop_stream THEN "returned" ELSE "setup"]

\* 699-703: a client is there or setup_reddit makes one; the subscription to
\* the comments of r/all is opened with skip_existing=True.
StreamSetupOk ==
    /\ LoopRuns /\ tasks.stream = "setup"
    /\ tasks' = [tasks EXCEPT !.stream = "streaming", !.reddit = TRUE, !.failures = 0]
    /\ UNCHANGED data_vars

\* 699-703 raise (setup_reddit re-raises, subreddit() fails): the handler of
\* 763 closes the client if there is one (765-770).
StreamSetupFails ==
    /\ LoopRuns /\ tasks.stream = "setup"
    /\ tasks' = IF tasks.reddit
                THEN [tasks EXCEPT !.stream = "closing",
                                   !.failures = CountFailure(@)]
                ELSE [StreamCoolsDown(tasks) EXCEPT !.failures = CountFailure(@)]
    /\ UNCHANGED data_vars

\* 703-761: one comment of the subscription; with stop_stream set the loop
\* is left instead (704-705) and the test of 697 ends the coroutine.
StreamNext ==
    /\ LoopRuns /\ tasks.stream = "streaming"
    /\ IF tasks.stop_stream
       THEN tasks' = StreamLoopTest(tasks) /\ UNCHANGED data_vars
       ELSE \E c \in Comments : StreamComment(c)

\* 703: the subscription raises (connection loss, or the other task closed
\* the client); the handler of 763 starts to close the client, if any.
StreamError ==
    /\ LoopRuns /\ tasks.stream = "streaming"
    /\ tasks' = IF tasks.reddit
                THEN [tasks EXCEPT !.stream = "closing",
                                   !.failures = CountFailure(@)]
                ELSE [StreamCoolsDown(tasks) EXCEPT !.failures = CountFailure(@)]
    /\ UNCHANGED data_vars

\* 766-771: close() returned or raised (bare except); the client is dropped
\* and the sleep of 772 starts.
StreamClose ==
    /\ LoopRuns /\ tasks.stream = "closing"
    /\ tasks' = StreamCoolsDown(tasks)
    /\ UNCHANGED data_vars

\* 772: the sleep is over; back to the loop test of 697.
StreamWake ==
    /\ LoopRuns /\ tasks.stream = "cooldown"
    /\ tasks' = StreamLoopTest(tasks)
    /\ UNCHANGED data_vars

StreamTask ==
    \/ StreamSetupOk \/ StreamSetupFails \/ StreamNext
    \/ StreamError \/ StreamClose \/ StreamWake

\* 2528-2532: monitoring_loop (while True) runs the cycles of monitor_reddit.
MonitoringNext ==
    /\ LoopRuns /\ tasks.monitoring = "running"
    /\ Sweep

\* 843-850: something in monitor_reddit raised outside the searches; its
\* handler closes the client, if any, and the cycle is over.
MonitoringError ==
    /\ LoopRuns /\ tasks.monitoring = "running"
    /\ tasks' = IF tasks.reddit THEN [tasks EXCEPT !.monitoring = "closing"]
                ELSE [tasks EXCEPT !.monitoring = "sleeping"]
    /\ UNCHANGED data_vars

\* 846-850: close() returned or raised (bare except); the client is dropped,
\* monitor_reddit returns and monitoring_loop sleeps check_interval (2532).
MonitoringClose ==
    /\ LoopRuns /\ tasks.monitoring = "closing"
    /\ tasks' = [tasks EXCEPT !.monitoring = "sleeping", !.reddit = FALSE]
    /\ UNCHANGED data_vars

\* 2532, 2528: the sleep is over and the loop (while True) goes on, whatever
\* the stop flags; the next cycle makes a client if there is none (801-802).
MonitoringWake ==
    /\ LoopRuns /\ tasks.monitoring = "sleeping"
    /\ tasks' = [tasks EXCEPT !.monitoring = "running", !.reddit = TRUE]
    /\ UNCHANGED data_vars

MonitoringTask == MonitoringNext \/ MonitoringError \/ MonitoringClose \/ MonitoringWake

\* 401-426: one step of the dispatcher's loop; at the loop test of 401 with
\* stop_notification_processor set the coroutine returns instead.
NotificationTask ==
    /\ LoopRuns /\ tasks.notification = "running"
    /\ IF tasks.stop_notification_processor /\ dispatcher.pc # "sending"
       THEN tasks' = [tasks EXCEPT !.notification = "returned"] /\ UNCHANGED data_vars
       ELSE Dispatcher

\* A CancelledError thrown into a task at position pc: the bare except around
\* close() (768, 2538) swallows it and the task goes on; elsewhere nothing
\* catches it (the handlers are `except Exception`) and the coroutine ends.
Cancelled(pc) ==
    IF pc \in Ended \/ pc = "closing" THEN pc ELSE "cancelled"

\* 2661-2667: start_bot is interrupted or raises; asyncio.run cancels every
\* task of its loop and runs the loop until all of them have ended.
Teardown ==
    /\ tasks.loop = "running"
    /\ tasks' = [tasks EXCEPT !.loop = "teardown",
                              !.stream = Cancelled(@),
                              !.monitoring = Cancelled(@),
                              !.notification = Cancelled(@)]
    /\ UNCHANGED data_vars

\* asyncio.run closes its loop once every task has ended.
LoopClosed ==
    /\ tasks.loop = "teardown"
    /\ tasks.stream \in Ended /\ tasks.monitoring \in Ended
    /\ tasks.notification \in Ended
    /\ tasks' = [tasks EXCEPT !.loop = "closed"]
    /\ UNCHANGED data_vars

\* asyncio.run is interrupted while it waits for the cancelled tasks: it closes
\* its loop at once, and a task that has not ended never runs again.
SecondInterrupt ==
    /\ tasks.loop = "teardown"
    /\ ~(tasks.stream \in Ended /\ tasks.monitoring \in Ended
         /\ tasks.notification \in Ended)
    /\ tasks' = [tasks EXCEPT !.loop = "closed"]
    /\ UNCHANGED data_vars

\* cleanup (2597-2622), run by main in a loop of its own after asyncio.run
\* returned or was interrupted (2664, 2667): save_data, then the two stop
\* flags; the tasks it cancels and awaits belong to the closed loop.
cleanup ==
    /\ tasks.loop = "closed"
    /\ tasks' = [tasks EXCEPT !.loop = "cleaned", !.stop_stream = TRUE,
                              !.stop_notification_processor = TRUE,
                              !.reddit = FALSE]
    /\ \E pi2 \in save_data(processed_items) :
          /\ processed_items' = pi2
          /\ SaveHistory(processed_items, processed_items, pi2)
    /\ UNCHANGED <<groups, group_entries, pending_notifications, dispatcher, sweep,
                   sender, pending_op, enq_log, sent_log, attempts, last_cmd, cmds,
                   phrase_call, exported>>

LifeFile == StoredFile(<<OwnerId>>, OwnerWithKeyword, NewGroup, EmptyDict)

InitLife ==
    /\ InitFrom(LifeFile)
    /\ insert_order = [g \in GroupIds |-> <<>>]
    /\ \E mode \in {"ok", "fail"} :
          sender = [g \in GroupIds |-> IF g = OwnerId THEN mode ELSE "ok"]

NextLife ==
    \/ StreamTask \/ MonitoringTask \/ NotificationTask
    \/ Teardown \/ LoopClosed \/ SecondInterrupt \/ cleanup

SpecLife == InitLife /\ [][NextLife]_vars

\* The event loop runs every task that is ready, and sleeps and close() calls
\* return: a step of a task that stays possible is taken.  Errors of the
\* content source and the end of the process are not owed.
SpecLifeFair ==
    /\ SpecLife
    /\ WF_vars(StreamNext) /\ WF_vars(StreamClose) /\ WF_vars(StreamWake)
    /\ WF_vars(MonitoringClose) /\ WF_vars(MonitoringWake)
    /\ WF_vars(NotificationTask)
    /\ WF_vars(LoopClosed) /\ WF_vars(cleanup)

\* The producers over a registry that does not change, with searches that
\* can fail: two groups, one of them with several keywords of both kinds.
OwnerManyKeywords ==
    [NewGroup EXCEPT !.keywords = {KwA, KwAB}, !.case_sensitive_keywords = {CkB}]
FailingFile == StoredFile(<<OwnerId, OtherId>>, OwnerManyKeywords, OtherPlain, EmptyDict)

InitFailing ==
    /\ InitFrom(FailingFile)
    /\ insert_order = [g \in GroupIds |-> <<>>]
    /\ sender = [g \in GroupIds |-> "ok"]

NextFailing == Stream \/ FailingSweep

SpecFailing == InitFailing /\ [][NextFailing]_vars

\* The matchers alone: every text and phrase up to the bounds, each matcher
\* called once on them.
MaxText == 4
MaxPhrase == 2

ProbeChars == {"a", "A", "-", " "}

SeqsUpTo(n) == UNION {[1..k -> ProbeChars] : k \in 0..n}

InitPhrase ==
    /\ groups = EmptyDict
    /\ group_entries = <<>>
    /\ processed_items = EmptyDict
    /\ pending_notifications = <<>>
    /\ dispatcher = DispatcherIdle
    /\ sweep = SweepIdle
    /\ sender = [g \in GroupIds |-> "ok"]
    /\ pending_op = [u \in UserIds |-> NoOp]
    /\ enq_log = <<>>
    /\ sent_log = <<>>
    /\ attempts = [n \in 1..MaxEnq |-> 0]
    /\ insert_order = [g \in GroupIds |-> <<>>]
    /\ evictions = {}
    /\ last_cmd = NoCmd
    /\ cmds = 0
    /\ \E text \in SeqsUpTo(MaxText), phrase \in SeqsUpTo(MaxPhrase) :
            phrase_call = PhraseCall(text, phrase)
    /\ tasks = TasksStarted
    /\ exported = NoExport

NextPhrase == CallContainsPhrase \/ CallContainsPhraseCaseSensitive

SpecPhrase == InitPhrase /\ [][NextPhrase]_vars

---------------------------------------------------------------------------
(* Properties *)

\* The positions in enq_log of the envelopes for group g and item id i.
EnvelopesFor(g, i) ==
    {n \in 1..Len(enq_log) : enq_log[n][1] = g /\ enq_log[n][2].id = i}

\* Item id i is in the dedup set of group g.
Marked(g, i) == g \in DOMAIN processed_items /\ i \in processed_items[g]

\* A trim of g's dedup set or a removal of g took item id i out of the set.
Evicted(g, i) ==
    \E r \in evictions : r.group = g /\ i \in Range(r.before) /\ i \notin r.after

\* The envelopes the current step appends to the queue, as positions of enq_log'.
NewEnvelopes == (Len(enq_log) + 1)..Len(enq_log')

\* Subreddit sr is eligible under an allow list and a deny list.
Eligible(allow, deny, sr) == (allow = {} \/ sr \in allow) /\ sr \notin deny

\* C1: for every group g and item id i whose entry no trim and no removal took
\* out of g's dedup set, the queue was given exactly one envelope for (g, i) if
\* a producer found i matching for g, and none otherwise, whichever of the
\* stream and the sweep saw i first.
ExactlyOneEnvelope ==
    \A g \in GroupIds, i \in ItemIds :
        ~Evicted(g, i) =>
            Cardinality(EnvelopesFor(g, i)) = IF Marked(g, i) THEN 1 ELSE 0

\* The sweep is handed a matching, eligible comment that the stream already
\* reported for the same group, and nothing was evicted.
SweepMeetsStreamed ==
    \E c \in Comments :
        /\ sweep.pc = "comments_results"
        /\ c \in SearchResults(Comments, sweep.target)
        /\ SweepMatch(c, sweep.kw, sweep.case_sensitive)
        /\ SweepAccepts(sweep.subreddits, sweep.blacklist, LowerText(c.subreddit))
        /\ Marked(sweep.gid, c.id)
        /\ evictions = {}
        /\ Cardinality(EnvelopesFor(sweep.gid, c.id)) = 1
        /\ \E n \in EnvelopesFor(sweep.gid, c.id) : enq_log[n][2].via = "stream"

\* Envelope number n (its position in enq_log) was sent, is waiting in the
\* queue at position k, is in flight.
Sent(n) == \E k \in 1..Len(sent_log) : sent_log[k][2].seq = n
QueuedAt(n) == {k \in 1..Len(pending_notifications) : pending_notifications[k][2].seq = n}
InFlight(n) == dispatcher.pc \in {"sending", "retry_wait"} /\ dispatcher.env[2].seq = n

\* C2: whenever the head of the queue is for a destination whose sender always
\* fails, every envelope behind it for a destination whose sender always
\* succeeds is eventually sent.
BehindFailingHead(n) ==
    /\ pending_notifications # <<>>
    /\ sender[Head(pending_notifications)[1]] = "fail"
    /\ \E k \in QueuedAt(n) : k > 1 /\ sender[pending_notifications[k][1]] = "ok"
FailingHeadDoesNotStall == \A n \in 1..MaxEnq : BehindFailingHead(n) ~> Sent(n)

\* C3: no envelope is attempted more than Rmax times.  The code states no
\* bound; the history counter stops at MaxAttempts, so every bound below that
\* can be seen to be exceeded.
Rmax == MaxAttempts - 1
AttemptsBounded == \A n \in 1..MaxEnq : attempts[n] <= Rmax

\* C4: when every sender always succeeds, the envelopes are sent in the order
\* in which they were appended to the queue, and every appended envelope is
\* eventually sent.
AllSendersOk == \A g \in GroupIds : sender[g] = "ok"
IsPrefix(a, b) == Len(a) <= Len(b) /\ SubSeq(b, 1, Len(a)) = a
FifoDelivery ==
    /\ [](AllSendersOk => IsPrefix(sent_log, enq_log))
    /\ \A n \in 1..MaxEnq : (AllSendersOk /\ Len(enq_log) >= n) ~> (Len(sent_log) >= n)

\* Every sender succeeds and MaxEnq envelopes, made by both producers, were all
\* sent in the order of their appends.
AllSentInOrder ==
    /\ AllSendersOk
    /\ Len(enq_log) = MaxEnq
    /\ sent_log = enq_log
    /\ \E m, n \in 1..Len(enq_log) :
          enq_log[m][2].via = "stream" /\ enq_log[n][2].via = "sweep"

\* C5: every appended envelope is at exactly one place, once: waiting in the
\* queue, in flight, or sent (so it is sent at most once, a sent envelope is
\* neither queued nor in flight, and a failed one is put back exactly once);
\* and while the dispatcher backs off after a failed send, the failed envelope
\* is the head of the queue, whatever the producers appended meanwhile.
Places(n) ==
    Cardinality(QueuedAt(n)) + (IF InFlight(n) THEN 1 ELSE 0)
    + Cardinality({k \in 1..Len(sent_log) : sent_log[k][2].seq = n})
SentOnceRequeuedAtHead ==
    /\ \A n \in 1..Len(enq_log) : Places(n) = 1
    /\ dispatcher.pc = "backoff" =>
          pending_notifications # <<>> /\ Head(pending_notifications) = dispatcher.env

\* An envelope is being sent again after a failed attempt while envelopes that
\* were appended after it wait in the queue.
RetriedBeforeOthers ==
    /\ dispatcher.pc = "sending"
    /\ attempts[dispatcher.env[2].seq] >= 2
    /\ Len(pending_notifications) >= 2
    /\ \A k \in 1..Len(pending_notifications) :
          pending_notifications[k][2].seq > dispatcher.env[2].seq

\* C6: every envelope a producer appends for group g comes from an item whose
\* subreddit is eligible under g's allow and deny lists as that producer read
\* them for the evaluation: the stream in the registry at that moment, the
\* sweep in the copies it took from the registry when the search started.
SearchOpens ==
    /\ sweep.pc \in {"posts_start", "comments_start"}
    /\ sweep'.pc \in {"posts_results", "comments_results"}
LastOf(seq, n) == {seq[k] : k \in (Len(seq) - n + 1)..Len(seq)}
TrimKeepsNewest ==
    \A r \in evictions :
        r.low > 0 => Cardinality(r.after) = r.low /\ r.after = LastOf(r.before, r.low)

\* C8: no sweep cycle is aborted: a configuration command that runs while the
\* cycle is suspended leaves the cycle to run to its end.
CycleNeverAborted == sweep.outcome # "aborted"

\* C9 as stated: every envelope is appended for a group that is enabled at that
\* moment, and a search is started only for a group that is enabled then.
NoWorkForDisabled ==
    [][/\ \A n \in NewEnvelopes :
            enq_log'[n][1] \in DOMAIN groups => groups[enq_log'[n][1]].enabled
       /\ SearchOpens /\ sweep.gid \in DOMAIN groups => groups[sweep.gid].enabled
      ]_vars

\* C9, amended: the stream appends envelopes only for groups that are enabled
\* at that moment; the sweep appends envelopes only for the group its cycle is
\* at, and its cycle moves on only to a group that is enabled at that moment.
EnabledWhenReached ==
    [][/\ \A n \in NewEnvelopes :
            IF enq_log'[n][2].via = "stream"
            THEN groups[enq_log'[n][1]].enabled
            ELSE enq_log'[n][1] = sweep.gid
       /\ sweep'.pos # sweep.pos /\ sweep'.pc # "sleep" =>
            sweep'.gid \in DOMAIN groups /\ groups[sweep'.gid].enabled
      ]_vars

\* The sweep is in a search for a group that was disabled after its cycle
\* reached it, and has appended an envelope for it.
SearchingDisabledGroup ==
    /\ sweep.pc \in {"posts_results", "comments_results"}
    /\ sweep.gid \in DOMAIN groups
    /\ ~groups[sweep.gid].enabled
    /\ \E n \in 1..Len(enq_log) :
          enq_log[n][1] = sweep.gid /\ enq_log[n][2].via = "sweep"

\* C10: after a text input added subreddits to a group's blacklist, every name
\* of the input that was in the group's allow list before is in the deny list,
\* not in the allow list, and not eligible.
DenyRemovesFromAllow ==
    last_cmd.op = "adding_blacklist" =>
        LET info == groups[last_cmd.group] IN
        \A x \in Range(last_cmd.input) :
            x \in last_cmd.before.subreddits =>
                /\ x \in info.subreddit_blacklist
                /\ x \notin info.subreddits
                /\ ~Eligible(info.subreddits, info.subreddit_blacklist, x)

\* C11: the owner's group is in the registry in every reachable state, whatever
\* load_data found and whatever groups were removed since.
OwnerAlwaysRegistered == OwnerId \in DOMAIN groups /\ OwnerId \in Range(group_entries)

\* The stored data lacked the owner's group, load_data added it after the
\* stored group, and the stored group was removed since.
OwnerOutlivesRemoval ==
    /\ group_entries = <<Hole, OwnerId>>
    /\ DOMAIN groups = {OwnerId}

\* C12: every step that takes a group out of the registry leaves no dedup set
\* of that group behind: no state between the two deletions is visible.
RemovalPurgesSeen ==
    [][\A g \in GroupIds :
          g \in DOMAIN groups /\ g \notin DOMAIN groups' =>
              g \notin DOMAIN processed_items']_vars

\* The second group was removed while its dedup set held ids, and neither its
\* registry entry nor its dedup set is left.
RemovedWithSeen ==
    /\ OtherId \notin DOMAIN groups
    /\ OtherId \notin DOMAIN processed_items
    /\ \E r \in evictions : r.group = OtherId /\ r.low = 0 /\ r.before # <<>>

\* C13: when an envelope's first request is answered with a throttling signal
\* carrying retry-after d and its second request succeeds, then until the
\* second request the dispatcher's task only sleeps d: it does not re-queue the
\* envelope and makes no request for another envelope; and the envelope is
\* delivered once.  On every platform.
ThrottledOnce(n) == Len(enq_log) >= n /\ sender[enq_log[n][1]] = "throttled"
ThrottleRetriedInPlace ==
    /\ [][\A n \in 1..MaxEnq :
            ThrottledOnce(n) /\ attempts[n] = 1 /\ attempts'[n] = 2 =>
                /\ dispatcher.env[2].seq = n
                /\ dispatcher.signal > 0
                /\ dispatcher.did = <<Slept(dispatcher.signal)>>]_vars
    /\ [](\A n \in 1..MaxEnq : ThrottledOnce(n) => Places(n) = 1)

\* The regular and the case-sensitive keywords of group g that comment c matches.
Hits(g, c) == {k \in groups[g].keywords : contains_phrase(c.body, k)}
CaseHits(g, c) ==
    {k \in groups[g].case_sensitive_keywords : contains_phrase_case_sensitive(c.body, k)}

\* Group g is registered and enabled, its filter accepts comment c and it has
\* not seen c.
Open(g, c) ==
    /\ g \in DOMAIN groups
    /\ groups[g].enabled
    /\ Eligible(groups[g].subreddits, groups[g].subreddit_blacklist,
                LowerText(c.subreddit))
    /\ ~Marked(g, c.id)

\* Group g is owed an envelope for comment c.
Owed(g, c) == Open(g, c) /\ Hits(g, c) \cup CaseHits(g, c) # {}

\* The envelopes for (g, c) that the current step appends.
NewFor(g, c) == {n \in NewEnvelopes : enq_log'[n][1] = g /\ enq_log'[n][2].id = c.id}

\* C14: when the stream evaluates a comment, every group that is owed an
\* envelope for it gets exactly one and every other group gets none, whatever
\* the other groups got.
StreamFansOut ==
    [][\A c \in Comments :
          StreamComment(c) =>
              \A g \in GroupIds :
                  Cardinality(NewFor(g, c)) = IF Owed(g, c) THEN 1 ELSE 0]_vars

\* One pass of the stream gave both groups an envelope for the same comment,
\* one each, the owner's group having two keywords that match it.
FannedOutToBoth ==
    /\ Len(enq_log) = 2
    /\ enq_log[1][1] # enq_log[2][1]
    /\ \A n \in 1..2 : enq_log[n][2].id = "t1" /\ enq_log[n][2].via = "stream"
    /\ \E c \in Comments : c.id = "t1" /\ Cardinality(Hits(OwnerId, c)) = 2

\* C15: for a group the stream evaluates a comment for, the envelope reports a
\* regular keyword that matches whenever one does, a case-sensitive keyword
\* that matches only when no regular keyword does, and when no keyword matches
\* there is no envelope and the comment is not marked seen.
RegularKeywordsFirst ==
    [][\A c \in Comments :
          StreamComment(c) =>
              \A g \in GroupIds :
                  Open(g, c) =>
                      IF Hits(g, c) # {}
                      THEN \E n \in NewFor(g, c) : enq_log'[n][2].keyword \in Hits(g, c)
                      ELSE IF CaseHits(g, c) # {}
                      THEN \E n \in NewFor(g, c) : enq_log'[n][2].keyword \in CaseHits(g, c)
                      ELSE NewFor(g, c) = {} /\ c.id \notin processed_items'[g]]_vars

\* The stream reported a regular keyword for a comment that a case-sensitive
\* keyword of the same group matches too, and in the same pass left the other
\* group, whose filter accepts the comment but whose keywords do not match it,
\* without envelope and without mark.
RegularReportedOverCase ==
    \E c \in Comments :
        /\ Hits(OwnerId, c) # {} /\ CaseHits(OwnerId, c) # {}
        /\ Hits(OwnerId, c) \cap CaseHits(OwnerId, c) = {}
        /\ \E n \in EnvelopesFor(OwnerId, c.id) :
              enq_log[n][2].via = "stream" /\ enq_log[n][2].keyword \in Hits(OwnerId, c)
        /\ Open(OtherId, c)
        /\ OtherId \in DOMAIN processed_items
        /\ EnvelopesFor(OtherId, c.id) = {}

\* The reading of "a contiguous run with a non-word character or the text edge
\* immediately before and after it": p sits at position s of t and neither
\* neighbour of the run is a word character.
DelimitedRun(t, p) ==
    /\ Len(p) > 0
    /\ \E s \in 1..Len(t) :
        /\ OccursAt(t, p, s)
        /\ ~WordAt(t, s - 1)
        /\ ~WordAt(t, s + Len(p))

\* Whether the phrase starts and ends with a word character.
WordEdged(p) == Len(p) > 0 /\ p[1] \in WordChars /\ p[Len(p)] \in WordChars

\* C16: contains_phrase(T, P) is true exactly when lowercase P is a contiguous
\* run of lowercase T with a non-word character or the text edge on both sides,
\* whatever characters P starts and ends with; it is false for an empty T or P.
ContainsPhraseIsDelimitedRun ==
    "ci" \in phrase_call.ran =>
        phrase_call.ci = DelimitedRun(LowerText(phrase_call.text),
                                      LowerText(phrase_call.phrase))

\* C16 restricted to phrases that start and end with a word character.
WordEdgedPhraseIsDelimitedRun ==
    ("ci" \in phrase_call.ran /\ (WordEdged(phrase_call.phrase) \/ Len(phrase_call.phrase) = 0)) =>
        phrase_call.ci = DelimitedRun(LowerText(phrase_call.text),
                                      LowerText(phrase_call.phrase))

\* The text holds the phrase as a delimited run only in another letter case.
OnlyInOtherCase(t, p) ==
    /\ DelimitedRun(LowerText(t), LowerText(p))
    /\ ~DelimitedRun(t, p)

\* C17: contains_phrase_case_sensitive(T, P) is true only if P is a delimited
\* run of T in its own letter case; when T holds P only in another letter case
\* it is false while contains_phrase(T, P) is true.
CaseSensitiveNeedsSameCase ==
    phrase_call.ran = {"ci", "cs"} =>
        /\ phrase_call.cs => DelimitedRun(phrase_call.text, phrase_call.phrase)
        /\ OnlyInOtherCase(phrase_call.text, phrase_call.phrase) =>
              (~phrase_call.cs /\ phrase_call.ci)

\* C17 restricted to phrases that start and end with a word character.
WordEdgedCaseSensitiveNeedsSameCase ==
    (phrase_call.ran = {"ci", "cs"} /\ WordEdged(phrase_call.phrase)) =>
        /\ phrase_call.cs => DelimitedRun(phrase_call.text, phrase_call.phrase)
        /\ OnlyInOtherCase(phrase_call.text, phrase_call.phrase) =>
              (~phrase_call.cs /\ phrase_call.ci)

\* The keyword the sweep is searching is one that the stream's phrase test of
\* its kind accepts for comment c.
SearchedHits(c) ==
    sweep.kw \in (IF sweep.case_sensitive THEN CaseHits(sweep.gid, c)
                  ELSE Hits(sweep.gid, c))

\* C18: for a group and a comment the sweep decides as the stream would in the
\* same registry and dedup state: the sweep appends an envelope for a comment
\* only if the stream would owe the group one and the searched keyword passes
\* the stream's phrase test, and whenever that is so for a comment among the
\* sweep's search results the sweep does append it.
SweepDecidesAsStream ==
    /\ [][\A c \in Comments :
             SearchCommentsItem(c) => (Owed(sweep.gid, c) /\ SearchedHits(c))]_vars
    /\ [](\A c \in Comments :
             ( /\ sweep.pc = "comments_results"
               /\ c \in SearchResults(Comments, sweep.target)
               /\ Owed(sweep.gid, c)
               /\ SearchedHits(c)
               /\ Len(enq_log) < MaxEnq )
             => ENABLED SearchCommentsItem(c))

\* The same comment reached one group through the sweep and the other through
\* the stream.
BothPathsDecided ==
    \E c \in Comments :
        \E n, m \in 1..Len(enq_log) :
            /\ enq_log[n][2].id = c.id /\ enq_log[m][2].id = c.id
            /\ enq_log[n][1] # enq_log[m][1]
            /\ enq_log[n][2].via = "sweep"
            /\ enq_log[m][2].via = "stream"

\* How often k occurs in seq.
Count(seq, k) == Cardinality({i \in 1..Len(seq) : seq[i] = k})

\* The latest update was a keyword command that ran its loop.
KeywordCommandRan == last_cmd.op \in {"addkeyword", "removekeyword"}

\* What the loop of the latest keyword command computed from the group's
\* keywords before it: the new set and the two lists of its reply (added and
\* skipped, or removed and not found).
Reported(set) ==
    IF last_cmd.op = "addkeyword"
    THEN LET r == AddEach(set, last_cmd.input, <<>>, <<>>)
         IN [set |-> r.set, done |-> r.added, left |-> r.skipped]
    ELSE LET r == RemoveEach(set, last_cmd.input, <<>>, <<>>)
         IN [set |-> r.set, done |-> r.removed, left |-> r.not_found]

\* The parts of C19 that do not depend on how a repeated keyword is counted:
\* the command leaves the set the loop computed, a keyword already present
\* (add) or absent (remove) goes to the second list only and does not change
\* the set, and running the same loop again on the result changes nothing and
\* reports every entry in the second list.
KeywordLoopSettles ==
    LET before == last_cmd.before.keywords
        r == Reported(before)
        again == Reported(r.set)
        idle(k) == IF last_cmd.op = "addkeyword" THEN k \in before ELSE k \notin before
    IN /\ groups[last_cmd.group].keywords = r.set
       /\ r.set = IF last_cmd.op = "addkeyword" THEN before \cup Range(last_cmd.input)
                  ELSE before \ Range(last_cmd.input)
       /\ \A k \in Range(last_cmd.input) :
             idle(k) => (Count(r.done, k) = 0 /\ Count(r.left, k) = Count(last_cmd.input, k))
       /\ (\A k \in Range(last_cmd.input) : idle(k)) => r.set = before
       /\ again.set = r.set
       /\ again.done = <<>>
       /\ again.left = last_cmd.input

\* A step that repeats the latest keyword command leaves the registry as it is.
RepeatChangesNothing ==
    \A chat \in ChatIds, g \in GroupIds, toks \in TokenLists(KeywordTokens) :
        ( /\ KeywordCommandRan
          /\ is_owner(chat)
          /\ last_cmd.group = g
          /\ last_cmd.input = ParseKeywords(toks)
          /\ \/ last_cmd.op = "addkeyword" /\ addkeyword(chat, g, toks)
             \/ last_cmd.op = "removekeyword" /\ remove_keyword_cmd(chat, g, toks) )
        => groups' = groups

Untouched == UNCHANGED <<groups, group_entries, processed_items, pending_op>>

\* C20: a configuration operation that names a group that is not registered -
\* a direct command, a menu button, or a text input opened for a group that was
\* removed since - leaves the registry, the dedup index and every user's
\* pending input unchanged.
UnknownGroupChangesNothing ==
    [][/\ \A chat \in ChatIds, g \in GroupIds \ DOMAIN groups :
             (removegroup(chat, g) \/ togglegroup(chat, g)) => Untouched
       /\ \A chat \in ChatIds, g \in GroupIds \ DOMAIN groups,
             toks \in TokenLists(KeywordTokens) :
             (addkeyword(chat, g, toks) \/ remove_keyword_cmd(chat, g, toks)) => Untouched
       /\ \A chat \in ChatIds, u \in UserIds, b \in Buttons,
             g \in GroupIds \ DOMAIN groups :
             group_selection_callback(chat, u, b, g) => Untouched
       /\ \A u \in UserIds, chat \in ChatIds,
             toks \in TokenLists(KeywordTokens) \cup TokenLists(SubredditTokens) :
             ( /\ pending_op[u].state # "none"
               /\ pending_op[u].group_id \notin DOMAIN groups
               /\ handle_message(u, chat, toks) ) => Untouched]_vars

\* The destination of a registered group: its platform, workspace and channel;
\* a record without channel or workspace stands for the chat the id names.
DestinationOf(g) ==
    Dest(groups[g].platform,
         IF "workspace_id" \in DOMAIN groups[g] THEN groups[g].workspace_id ELSE "",
         IF "channel_id" \in DOMAIN groups[g] THEN groups[g].channel_id ELSE g)

Registered(dest) == \E g \in DOMAIN groups : DestinationOf(g) = dest

\* C21: no two registered groups share a destination, and the owner's request
\* to add a valid destination is rejected exactly if the destination is
\* registered: otherwise it is registered afterwards, under an id of its own.
DestinationsUnique ==
    /\ [](\A g, h \in DOMAIN groups : DestinationOf(g) = DestinationOf(h) => g = h)
    /\ [][\A dest \in Destinations :
             (ValidDest(dest) /\ addgroup(OwnerId, dest)) =>
                 IF Registered(dest) THEN groups' = groups
                 ELSE \E g \in DOMAIN groups' \ DOMAIN groups :
                         /\ groups'[g].platform = dest.platform
                         /\ groups'[g].workspace_id = dest.workspace_id
                         /\ groups'[g].channel_id = dest.channel_id]_vars

\* The same with addgroup told apart by the group id it computes instead of
\* the destination.
IdsUnique ==
    /\ [](\A g, h \in DOMAIN groups : DestinationOf(g) = DestinationOf(h) => g = h)
    /\ [][\A dest \in Destinations :
             (ValidDest(dest) /\ addgroup(OwnerId, dest)) =>
                 IF new_group_id(dest) \in DOMAIN groups THEN groups' = groups
                 ELSE \E g \in DOMAIN groups' \ DOMAIN groups :
                         /\ groups'[g].platform = dest.platform
                         /\ groups'[g].workspace_id = dest.workspace_id
                         /\ groups'[g].channel_id = dest.channel_id]_vars

\* Every group's keywords, filters and enabled flag, and the set of groups,
\* are as before the step.
RegistryKept == groups' = groups

\* C22: no operation that comes from a chat other than the owner's changes the
\* registry: neither a command, nor a menu button, nor the text of a pending
\* input.
NonOwnerChangesNothing ==
    [][\A chat \in ChatIds \ {OwnerId} :
          /\ \A g \in GroupIds :
                (addgroup(chat, TelegramChat(g)) \/ removegroup(chat, g)
                   \/ togglegroup(chat, g)) => RegistryKept
          /\ \A g \in GroupIds, toks \in TokenLists(KeywordTokens) :
                (addkeyword(chat, g, toks) \/ remove_keyword_cmd(chat, g, toks))
                   => RegistryKept
          /\ \A u \in UserIds, b \in Buttons, g \in GroupIds :
                group_selection_callback(chat, u, b, g) => RegistryKept
          /\ \A u \in UserIds,
                toks \in TokenLists(KeywordTokens) \cup TokenLists(SubredditTokens) :
                handle_message(u, chat, toks) => RegistryKept]_vars

\* The same without the menu buttons.
NonOwnerCommandsChangeNothing ==
    [][\A chat \in ChatIds \ {OwnerId} :
          /\ \A g \in GroupIds :
                (addgroup(chat, TelegramChat(g)) \/ removegroup(chat, g)
                   \/ togglegroup(chat, g)) => RegistryKept
          /\ \A g \in GroupIds, toks \in TokenLists(KeywordTokens) :
                (addkeyword(chat, g, toks) \/ remove_keyword_cmd(chat, g, toks))
                   => RegistryKept
          /\ \A u \in UserIds,
                toks \in TokenLists(KeywordTokens) \cup TokenLists(SubredditTokens) :
                handle_message(u, chat, toks) => RegistryKept]_vars


\* The step is the start of a new process whose load_data logged `line`.
StartedWith(line) == cmds' # cmds /\ last_cmd'.op = line

DestinationIn(regs, g) ==
    Dest(regs[g].platform,
         IF "workspace_id" \in DOMAIN regs[g] THEN regs[g].workspace_id ELSE "",
         IF "channel_id" \in DOMAIN regs[g] THEN regs[g].channel_id ELSE g)

NoSetOverSaveHigh == \A g \in DOMAIN processed_items : Cardinality(processed_items[g]) <= SaveHigh

\* The step leaves the same groups with the same keywords, case-sensitive
\* keywords, allow list, deny list, enabled flag and destination, and the same
\* dedup sets.
SameRegistryAndSeen ==
    /\ DOMAIN groups' = DOMAIN groups
    /\ \A g \in DOMAIN groups :
          /\ groups'[g].keywords = groups[g].keywords
          /\ groups'[g].case_sensitive_keywords = groups[g].case_sensitive_keywords
          /\ groups'[g].subreddits = groups[g].subreddits
          /\ groups'[g].subreddit_blacklist = groups[g].subreddit_blacklist
          /\ groups'[g].enabled = groups[g].enabled
          /\ DestinationIn(groups', g) = DestinationIn(groups, g)
    /\ processed_items' = processed_items

\* C30: a process that starts after save_data wrote the file loads the same
\* groups (keywords, case-sensitive keywords, allow list, deny list, enabled
\* flag, destination) and the same dedup sets, provided no dedup set was over
\* the trim threshold of save_data.
SaveThenLoadIsRoundTrip ==
    [][(NoSetOverSaveHigh /\ \E env \in EnvValues : Restart(env))
          => SameRegistryAndSeen]_vars

\* The same for the starts that read the file: BOT_DATA_JSON is unset or does
\* not parse.
SaveThenLoadFromFileIsRoundTrip ==
    [][(NoSetOverSaveHigh /\ \E env \in {NoData, Malformed} : Restart(env))
          => SameRegistryAndSeen]_vars

\* A start that read back a Slack group, a keyword and a dedup entry.
ReadBackFromFile ==
    /\ last_cmd.op = "Loaded data from file"
    /\ \E g \in DOMAIN groups : groups[g].platform = "slack"
    /\ \E g \in DOMAIN groups : groups[g].keywords # {}
    /\ \E g \in DOMAIN processed_items : processed_items[g] # {}

\* C24: an error of the stream never ends its task: the task ends only when
\* the event loop cancels it.  After the error the client is dropped and the
\* task sleeps StreamCooldown seconds, a new subscription is opened only from
\* there, and the task does get back to opening one (699-703) unless it is
\* cancelled first.
StreamRecoversFromErrors ==
    /\ [][(tasks.stream \notin Ended /\ tasks'.stream \in Ended)
            => (tasks.loop = "running" /\ tasks'.loop = "teardown"
                /\ tasks'.stream = "cancelled")]_vars
    /\ [][(tasks.stream # "cooldown" /\ tasks'.stream = "cooldown")
            => (~tasks'.reddit /\ tasks'.slept = StreamCooldown)]_vars
    /\ [][(tasks.stream # "setup" /\ tasks'.stream = "setup")
            => (tasks.stream = "cooldown" /\ ~tasks.stop_stream)]_vars
    /\ (tasks.stream \in {"closing", "cooldown"} /\ LoopRuns)
          ~> (tasks.stream \in {"setup", "cancelled"} \/ ~LoopRuns)

\* The stream has a subscription again after an error and its cooldown, and
\* comments have been enqueued.
StreamsAgainAfterErrors ==
    /\ tasks.stream = "streaming" /\ tasks.slept = StreamCooldown
    /\ tasks.reddit /\ tasks.failures = 0
    /\ enq_log # <<>>

\* C25: the cooldown that follows the MaxFailures-th error in a row is longer
\* than the short cooldown that follows the first.
CooldownEscalates ==
    [][(tasks.stream # "cooldown" /\ tasks'.stream = "cooldown"
        /\ tasks'.failures >= MaxFailures)
          => tasks'.slept > StreamCooldown]_vars

\* C26: once the stop flags are set, the stream's task, monitoring_loop and the
\* dispatcher's task end.
StopFlagsEndTasks ==
    (tasks.stop_stream /\ tasks.stop_notification_processor)
        ~> (tasks.stream \in Ended /\ tasks.monitoring \in Ended
            /\ tasks.notification \in Ended)

\* The step sends a request to a platform: the send of a popped envelope or
\* the second request of a throttled Telegram send.
StartsSend ==
    \/ dispatcher.pc # "sending" /\ dispatcher'.pc = "sending"
    \/ dispatcher.pc = "retry_wait" /\ dispatcher'.pc # "retry_wait"

SleptFor(secs) == \E k \in 1..Len(dispatcher.did) : dispatcher.did[k] = Slept(secs)

\* C27: the dispatcher slept between any two requests it sends: the
\* inter-message delay after a send that succeeded, twice that after a send
\* that failed, and the signalled wait before the second request of a throttled
\* send; only its first request follows no sleep.
SendsArePaced ==
    [][StartsSend =>
          \/ dispatcher.pc = "idle" /\ sent_log = <<>>
                /\ \A n \in 1..MaxEnq : attempts[n] = 0
          \/ dispatcher.pc = "pause" /\ SleptFor(notification_delay)
          \/ dispatcher.pc = "backoff" /\ SleptFor(2 * notification_delay)
          \/ dispatcher.pc = "retry_wait" /\ dispatcher.signal > 0
                /\ SleptFor(ThrottleWait(dispatcher.signal))]_vars

\* Two envelopes for different destinations were sent and one envelope needed
\* a second attempt.
SentToTwoAfterRetry ==
    /\ Len(sent_log) >= 2
    /\ sent_log[1][1] # sent_log[2][1]
    /\ \E n \in 1..MaxEnq : attempts[n] >= 2

\* C28: the membership test, the enqueue and the insertion of a producer
\* for group g and item i are one step: every step that enqueues for (g, i)
\* finds i outside g's dedup set and leaves it inside, and every step that
\* puts i into g's dedup set enqueues for (g, i); no step of another task
\* lies between the test and the insertion.
CheckAndMarkInOneStep ==
    /\ [][\A n \in NewEnvelopes :
             /\ ~Marked(enq_log'[n][1], enq_log'[n][2].id)
             /\ enq_log'[n][1] \in DOMAIN processed_items'
             /\ enq_log'[n][2].id \in processed_items'[enq_log'[n][1]]]_vars
    /\ [][\A g \in DOMAIN processed_items', i \in ItemIds :
             (i \in processed_items'[g] /\ ~Marked(g, i))
                => \E n \in NewEnvelopes :
                      enq_log'[n][1] = g /\ enq_log'[n][2].id = i]_vars

\* Both producers have enqueued and marked while the dispatcher held an
\* envelope in flight.
BothProducersMarkedDuringSend ==
    /\ \E n \in 1..Len(enq_log) : enq_log[n][2].via = "stream"
    /\ \E n \in 1..Len(enq_log) : enq_log[n][2].via = "sweep"
    /\ dispatcher.pc = "sending"
    /\ \A n \in 1..Len(enq_log) : Marked(enq_log[n][1], enq_log[n][2].id)

\* Something is left to search in the cycle at position sw: a keyword of the
\* current group, or a later enabled group with a keyword.
LeftToSearch(sw) ==
    \/ sw.kws # {}
    \/ ~sw.case_sensitive /\ SweepGroupInfo(groups, sw).case_sensitive_keywords # {}
    \/ \E j \in (sw.pos + 1)..Len(group_entries) :
          /\ group_entries[j] # Hole
          /\ GroupEnabled(groups[group_entries[j]])
          /\ groups[group_entries[j]].keywords
                \cup groups[group_entries[j]].case_sensitive_keywords # {}

\* C29: with the registry unchanged, a search that raises does not end the
\* cycle: a cycle ends only when no keyword of the current group and no
\* later enabled group is left to search, and it ends with the trim and the
\* save; a failed search of posts is followed by the search of comments for
\* the same group and keyword.
SearchErrorsDoNotEndCycle ==
    /\ [][(sweep.pc # "sleep" /\ sweep'.pc = "sleep")
            => (sweep'.outcome = "completed" /\ ~LeftToSearch(sweep)
                /\ processed_items' \in
                     UNION {save_data(pi1) :
                              pi1 \in trim_processed_items_in_memory(processed_items)})]_vars
    /\ [][(sweep.pc \in {"posts_start", "posts_results"} /\ sweep'.failed /\ ~sweep.failed)
            => (sweep'.pc \in {"comments_start", "posts_start", "sleep"}
                /\ (sweep'.pc = "comments_start"
                      => sweep'.gid = sweep.gid /\ sweep'.kw = sweep.kw))]_vars

\* A cycle in which a search raised has ended with trim and save, after the
\* sweep enqueued for both groups.
CycleCompletedDespiteError ==
    /\ sweep.pc = "sleep" /\ sweep.outcome = "completed" /\ sweep.failed
    /\ \A g \in GroupIds :
          \E n \in 1..Len(enq_log) : enq_log[n][1] = g /\ enq_log[n][2].via = "sweep"

\* The step starts a process from the exported JSON.
StartsFromExport ==
    /\ exported.json.present
    /\ cmds' # cmds /\ last_cmd'.op = "Loaded data from environment variable"

\* Group g of the registry at export time is registered after the step with
\* the same keywords, filters, enabled flag and destination.
RestoredButCaseKeywords(g) ==
    /\ g \in DOMAIN groups'
    /\ groups'[g].keywords = exported.at[g].keywords
    /\ groups'[g].subreddits = exported.at[g].subreddits
    /\ groups'[g].subreddit_blacklist = exported.at[g].subreddit_blacklist
    /\ groups'[g].enabled = exported.at[g].enabled
    /\ DestinationIn(groups', g) = DestinationIn(exported.at, g)

\* C31: a process started with the JSON of /exportdata in BOT_DATA_JSON has
\* every group of the export with the keywords, case-sensitive keywords,
\* allow list, deny list, enabled flag and destination it had at export time.
ExportRestoresConfiguration ==
    [][StartsFromExport =>
          \A g \in DOMAIN exported.at :
              /\ RestoredButCaseKeywords(g)
              /\ groups'[g].case_sensitive_keywords
                    = exported.at[g].case_sensitive_keywords]_vars

\* The same without the case-sensitive keywords.
ExportRestoresAllButCaseKeywords ==
    [][StartsFromExport => \A g \in DOMAIN exported.at : RestoredButCaseKeywords(g)]_vars

\* C32: every group id that has a dedup set is a registered group; after
\* removegroup(g) no dedup set for g exists, and none is created again by a
\* sweep or a stream that was serving g, unless g is added again.
DedupSetsBelongToGroups == DOMAIN processed_items \subseteq DOMAIN groups

\* C33: whatever allow-list and deny-list inputs have been entered, no
\* subreddit is both in a group's allow list and in its deny list.
AllowAndDenyDisjoint ==
    \A g \in DOMAIN groups :
        groups[g].subreddits \cap groups[g].subreddit_blacklist = {}

\* C34: after a text input added subreddits to a group's deny list, every
\* subreddit that the stream or the sweep accepts for the group was accepted
\* before the input, also when the input emptied the allow list.
AddDenyNeverWidens ==
    last_cmd.op = "adding_blacklist" =>
        LET info == groups[last_cmd.group]
            before == last_cmd.before
        IN \A sr \in Subreddits :
              /\ StreamAccepts(info, sr) => StreamAccepts(before, sr)
              /\ SweepAccepts(info.subreddits, info.subreddit_blacklist, sr)
                    => SweepAccepts(before.subreddits, before.subreddit_blacklist, sr)

\* C34 for inputs that leave a name in the allow list, or find it empty.
AddDenyNarrowsUnlessAllowEmptied ==
    last_cmd.op = "adding_blacklist"
    /\ (groups[last_cmd.group].subreddits # {} \/ last_cmd.before.subreddits = {}) =>
        LET info == groups[last_cmd.group]
            before == last_cmd.before
        IN \A sr \in Subreddits :
              /\ StreamAccepts(info, sr) => StreamAccepts(before, sr)
              /\ SweepAccepts(info.subreddits, info.subreddit_blacklist, sr)
                    => SweepAccepts(before.subreddits, before.subreddit_blacklist, sr)

\* The step takes an envelope of an unregistered group off the queue.
PopsOrphan ==
    /\ pending_notifications # <<>>
    /\ pending_notifications' = Tail(pending_notifications)
    /\ Head(pending_notifications)[1] \notin DOMAIN groups

\* Envelope env waits in the queue or is in a send.
InQueueOrSend(env) ==
    \/ \E n \in 1..Len(pending_notifications) : pending_notifications[n] = env
    \/ dispatcher.pc = "sending" /\ dispatcher.env = env

\* C35: the dispatcher takes an envelope of a group that is no longer
\* registered off the queue without a send attempt; the envelope never enters
\* the queue again, and the dispatcher is left where its next step pops the
\* envelope that was behind it.
OrphanEnvelopeIsDropped ==
    /\ [][PopsOrphan =>
             /\ attempts' = attempts /\ sent_log' = sent_log
             /\ dispatcher'.pc = "pause" /\ Requeued \notin Range(dispatcher'.did)
             /\ dispatcher'.env = Head(pending_notifications)]_vars
    /\ [][\A n \in 1..Len(enq_log) :
             ~InQueueOrSend(enq_log[n]) =>
                 \A m \in 1..Len(pending_notifications') :
                     pending_notifications'[m] # enq_log[n]]_vars
    /\ [](dispatcher.pc = "pause" /\ dispatcher.env[1] \notin DOMAIN groups
            /\ pending_notifications # <<>> => ENABLED DispatchPop)

\* An envelope of a removed group was dropped, and the envelope behind it, for
\* a registered group, was sent.
SentAfterOrphanDropped ==
    \E n \in 1..Len(enq_log) :
        /\ enq_log[n][1] \notin DOMAIN groups
        /\ ~InQueueOrSend(enq_log[n])
        /\ \A m \in 1..Len(sent_log) : sent_log[m] # enq_log[n]
        /\ \E m \in 1..Len(sent_log) : \E k \in (n+1)..Len(enq_log) :
              sent_log[m] = enq_log[k]

\* C36: the dispatcher starts a send only for a group that is enabled at that
\* moment: an envelope whose group was disabled while it waited in the queue
\* is not delivered.
SendsOnlyToEnabled ==
    [][dispatcher'.pc = "sending" /\ dispatcher.pc # "sending" =>
          groups[dispatcher'.env[1]].enabled]_vars

\* What holds instead: a send is started only for a registered group.
SendsOnlyToRegistered ==
    [][dispatcher'.pc = "sending" /\ dispatcher.pc # "sending" =>
          dispatcher'.env[1] \in DOMAIN groups]_vars

\* Item i counts as seen for group g in the producer that handles its kind.
CountsAsSeen(g, i) ==
    IF i.kind = "comment" THEN StreamSeen(processed_items, g, i)
    ELSE SweepSeen(processed_items, g, i)

\* C37: dedup distinguishes item kinds: a post counts as seen for a group only
\* if a post of that id was reported to the group, and a comment only if a
\* comment of that id was; a mark for the other kind does not suppress it.
DedupKeepsKindsApart ==
    \A g \in DOMAIN processed_items : \A i \in Items \cup {SameIdComment} :
        CountsAsSeen(g, i) =>
            \E n \in 1..Len(enq_log) :
                /\ enq_log[n][1] = g
                /\ enq_log[n][2].id = i.id
                /\ enq_log[n][2].type = i.kind

\* What holds instead: an item counts as seen for a group only if an item of
\* that id, of either kind, was reported to the group.
DedupIsByIdAlone ==
    \A g \in DOMAIN processed_items : \A i \in Items \cup {SameIdComment} :
        CountsAsSeen(g, i) =>
            \E n \in 1..Len(enq_log) :
                enq_log[n][1] = g /\ enq_log[n][2].id = i.id

\* Every (group, item) pair that is marked seen before the step is marked
\* seen after it.
SeenKept ==
    \A g \in DOMAIN processed_items :
        g \in DOMAIN processed_items' /\ processed_items[g] \subseteq processed_items'[g]

\* C38: save_data leaves memory as it was: a /togglegroup, which changes the
\* enabled flag and calls save_data, keeps every pair that was marked seen,
\* and no save_data, of a command or at the end of a sweep cycle, takes an
\* entry out of a dedup set.
SaveKeepsMemory ==
    /\ [][cmds' # cmds => SeenKept]_vars
    /\ [](\A r \in evictions : r.low # SaveLow)

\* C38 for calls that find no dedup set above the save threshold.
SaveKeepsSmallSets ==
    [][cmds' # cmds /\ (\A g \in DOMAIN processed_items :
                           Cardinality(processed_items[g]) <= SaveHigh)
          => processed_items' = processed_items]_vars

\* C39: after Cancel was pressed on an input prompt, no text message changes
\* a group's configuration until a new operation is selected from the menu.
\* (Under SpecCancel the registry changes by text messages only, and last_cmd
\* holds the Cancel until the next button or the next applied text.)
CancelClosesInput ==
    [][last_cmd.op = CancelButton => groups' = groups]_vars

\* What holds instead: a text message changes a configuration only for a user
\* with a pending input, and its group is the one the input was opened for.
TextNeedsPendingInput ==
    [][groups' # groups =>
          \E u \in UserIds :
              /\ pending_op[u].state # "none"
              /\ \A g \in DOMAIN groups :
                    groups'[g] # groups[g] => g = pending_op[u].group_id]_vars
====
